---- MODULE Spec2Model ----
(***************************************************************************)
(* Real-estate deal evaluator: the deterministic evaluation pipeline       *)
(* (POST /api/evaluate), the CLI `evaluate` command and the calculation    *)
(* library they call (mortgage, core ratios, cash-flow projection,         *)
(* strategy-fit scoring, rent-control compliance, comparable sales).       *)
(*                                                                         *)
(* Number representation.  The program computes in IEEE doubles; the model *)
(* computes in exact integers:                                             *)
(*   - money is an integer number of cents;                                *)
(*   - a rate (interest, vacancy, appreciation) is an integer number of    *)
(*     basis points, 1 bp = 1/10000;                                       *)
(*   - a ratio that the program compares against thresholds (DSCR, rent    *)
(*     per m2) is kept as an exact fraction [num, den] and compared by     *)
(*     cross-multiplication; den = 0 with num = 1 stands for +infinity;    *)
(*   - a score is an integer number of 1/1000 points (0 .. 100000).        *)
(* Products and quotients are floored at the unit of the result.           *)
(***************************************************************************)
EXTENDS Integers, Sequences, FiniteSets, TLC

VARIABLES
    pc,         \* position of the evaluate_property coroutine
    request,    \* the PropertyEvaluationRequest being served
    ctx,        \* locals of evaluate_property held across the await
    response,   \* the PropertyEvaluationResponse, or the HTTP error
    cli_out,    \* what the CLI evaluate command printed
    proj_call,  \* a direct call of calculate_cash_flow_projection
    rent_call,  \* a direct call of check_rent_compliance
    fit_call,   \* a direct call of calculate_all_strategy_fits
    dvf,        \* the HTTP exchange with the DVF service
    parse_call, \* a call of POST /api/parse/text
    amort_call, \* a direct call of amortization_schedule
    delta_call, \* a direct call of listing_delta_calculation
    tool,       \* the evaluator agent's tool invocation in progress
    run,        \* the sub-agent run that the tool awaits
    drafts,     \* the drafts the email client has created
    sessions,   \* the evaluate_property coroutines of concurrent requests
    search_call,   \* a direct call of fetch_dvf_comps_progressive
    settings_load, \* the import of backend/agents/settings.py
    paris_call,    \* a direct call of the Paris rent compliance helper
    risk_call,     \* a direct call of _calculate_overall_risk_level
    city_call      \* a postal code looked up by both routes

\* the variables of the parse route, the library calls, the agent tools and
\* the concurrent requests
aside == <<parse_call, amort_call, delta_call, tool, run, drafts, sessions, search_call, settings_load, paris_call, risk_call, city_call>>

vars ==
    <<pc, request, ctx, response, cli_out, proj_call, rent_call, fit_call, dvf,
      aside>>

None == [op |-> "none"]

-----------------------------------------------------------------------------
(* Integer arithmetic standing for the program's float arithmetic.         *)

\* floor(a * b / c) for 0 <= a, 0 <= b, c > 0, without leaving 32 bits
MulDiv(a, b, c) == (a \div c) * b + ((a % c) * b) \div c

RECURSIVE ScaleDivRec(_, _, _, _)
ScaleDivRec(q, r, c, k) ==
    IF k = 0 THEN q
    ELSE ScaleDivRec(q * 10 + (r * 10) \div c, (r * 10) % c, c, k - 1)

\* floor(a * 10^digits / c) for c > 0, by long division
ScaleDiv(a, c, digits) == ScaleDivRec(a \div c, a % c, c, digits)

Max(a, b) == IF a >= b THEN a ELSE b
Min(a, b) == IF a <= b THEN a ELSE b

\* one basis point is 1/RateScale
RateScale == 10000

\* a fraction n/d; d = 0 (with n = 1) is float('inf')
Frac(n, d) == [num |-> n, den |-> d]
FracInf == Frac(1, 0)
FracGe(x, n, d) == x.num * d >= n * x.den
FracGt(x, n, d) == x.num * d > n * x.den
FracLt(x, n, d) == x.num * d < n * x.den
FracLe(x, n, d) == x.num * d <= n * x.den

-----------------------------------------------------------------------------
(* backend/calculations/mortgage.py                                        *)

\* (1 + annual_rate/12)^n scaled by PowScale
PowScale == 10000000

\* one month of compounding: x * (1 + annual_rate/12)
CompoundMonth(x, annual_rate) == x + MulDiv(x, annual_rate, 12 * RateScale)

RECURSIVE CompoundMonths(_, _, _)
CompoundMonths(x, annual_rate, k) ==
    IF k = 0 \/ x = 0 THEN x
    ELSE CompoundMonths(CompoundMonth(x, annual_rate), annual_rate, k - 1)

\* (1 + annual_rate/12) ** (12 * years), twelve months at a time
RECURSIVE Compound(_, _)
Compound(annual_rate, years) ==
    IF years = 0 THEN PowScale
    ELSE CompoundMonths(Compound(annual_rate, years - 1), annual_rate, 12)

monthly_payment(principal, annual_rate, years) ==
    IF principal <= 0 \/ years <= 0 THEN 0
    ELSE IF annual_rate = 0 THEN principal \div (years * 12)
    ELSE LET growth == Compound(annual_rate, years) - PowScale
             first == MulDiv(principal, annual_rate, 12 * RateScale)
         IN  \* P * (i / (1 - (1+i)^-n)) = P*i + P*i / ((1+i)^n - 1)
             first + ScaleDiv(first, growth, 7)

\* interest of one month on a balance: remaining_balance * monthly_rate
MonthInterest(balance, annual_rate) == MulDiv(balance, annual_rate, 12 * RateScale)

\* the loop variable remaining_balance after one more payment (not clamped)
AmortStep(balance, payment, annual_rate) ==
    balance - (payment - MonthInterest(balance, annual_rate))

\* the values of remaining_balance after each of the next k payments
RECURSIVE BalancesFrom(_, _, _, _)
BalancesFrom(balance, payment, annual_rate, k) ==
    IF k = 0 THEN <<>>
    ELSE LET b == AmortStep(balance, payment, annual_rate)
         IN  <<b>> \o BalancesFrom(b, payment, annual_rate, k - 1)

\* the same for the first `years` years, twelve payments at a time
RECURSIVE RawBalances(_, _, _, _)
RawBalances(principal, payment, annual_rate, years) ==
    IF years = 0 THEN <<>>
    ELSE LET prev == RawBalances(principal, payment, annual_rate, years - 1)
             start == IF prev = <<>> THEN principal ELSE prev[Len(prev)]
         IN  prev \o BalancesFrom(start, payment, annual_rate, 12)

\* an entry that reports the balance as the loop left it
ScheduleEntryUnclamped(month, before, payment, annual_rate) ==
    [payment_number |-> month,
     payment |-> payment,
     principal_payment |-> payment - MonthInterest(before, annual_rate),
     interest_payment |-> MonthInterest(before, annual_rate),
     remaining_balance |-> AmortStep(before, payment, annual_rate)]

\* schedule.append({...}), the balance clamped at 0
ScheduleEntry(month, before, payment, annual_rate) ==
    [payment_number |-> month,
     payment |-> payment,
     principal_payment |-> payment - MonthInterest(before, annual_rate),
     interest_payment |-> MonthInterest(before, annual_rate),
     remaining_balance |-> Max(0, AmortStep(before, payment, annual_rate))]

amortization_schedule(principal, annual_rate, years) ==
    IF principal <= 0 \/ years <= 0 THEN <<>>
    ELSE LET payment == monthly_payment(principal, annual_rate, years)
             raw == RawBalances(principal, payment, annual_rate, years)
         IN  [month \in 1..(years * 12) |->
                ScheduleEntry(month,
                              IF month = 1 THEN principal ELSE raw[month - 1],
                              payment, annual_rate)]

-----------------------------------------------------------------------------
(* backend/calculations/financial.py                                       *)

gross_monthly_income(monthly_rent, other_income) == monthly_rent + other_income

vacancy_credit_loss(gmi, vacancy_rate) == MulDiv(gmi, vacancy_rate, RateScale)

noi_calculation(gmi, vcl, annual_operating_expenses) ==
    (gmi - vcl) * 12 - annual_operating_expenses

annual_debt_service(monthly_mortgage_payment) == monthly_mortgage_payment * 12

\* a ratio that answers 0.0 whenever there is no debt service
dscr_calculationZeroDebt(noi, ads) ==
    IF ads = 0 THEN Frac(0, 1) ELSE Frac(noi, ads)

dscr_calculation(noi, ads) ==
    IF ads = 0 THEN (IF noi > 0 THEN FracInf ELSE Frac(0, 1))
    ELSE Frac(noi, ads)

\* as a fraction in basis points
cap_rate(noi, purchase_price) ==
    IF purchase_price = 0 THEN 0 ELSE ScaleDiv(noi, purchase_price, 4)

cash_on_cash(annual_pre_tax_cash_flow, initial_cash_invested) ==
    IF initial_cash_invested = 0 THEN 0
    ELSE ScaleDiv(annual_pre_tax_cash_flow, initial_cash_invested, 4)

ltv_ratio(loan_amount, purchase_price) ==
    IF purchase_price = 0 THEN 0 ELSE ScaleDiv(loan_amount, purchase_price, 4)

total_monthly_cost(principal_payment, interest_payment, monthly_operating_expenses, monthly_tax_benefit) ==
    principal_payment + interest_payment
        + monthly_operating_expenses - monthly_tax_benefit

-----------------------------------------------------------------------------
(* backend/calculations/cashflow.py                                        *)

\* the purchase-cost rates are fractions of CostScale
CostScale == 100000

notaire_fees(purchase_price) ==
    IF purchase_price <= 650000 THEN MulDiv(purchase_price, 3945, CostScale)
    ELSE IF purchase_price <= 1700000 THEN
        MulDiv(650000, 3945, CostScale)
            + MulDiv(purchase_price - 650000, 1627, CostScale)
    ELSE IF purchase_price <= 6000000 THEN
        MulDiv(650000, 3945, CostScale)
            + MulDiv(1700000 - 650000, 1627, CostScale)
            + MulDiv(purchase_price - 1700000, 1085, CostScale)
    ELSE
        MulDiv(650000, 3945, CostScale)
            + MulDiv(1700000 - 650000, 1627, CostScale)
            + MulDiv(6000000 - 1700000, 1085, CostScale)
            + MulDiv(purchase_price - 6000000, 814, CostScale)

calculate_french_purchase_costs(purchase_price, has_mortgage) ==
    LET registration_duties == MulDiv(purchase_price, 5800, CostScale)
        fees == notaire_fees(purchase_price)
        disbursements == MulDiv(purchase_price, 400, CostScale)
        mortgage_fees ==
            IF has_mortgage THEN MulDiv(purchase_price, 400, CostScale) ELSE 0
    IN  [registration_duties |-> registration_duties,
         notaire_fees |-> fees,
         disbursements |-> disbursements,
         mortgage_fees |-> mortgage_fees,
         total |-> registration_duties + fees + disbursements + mortgage_fees]

\* year_0_cash_out without the purchase fees
Year0CashOutNoFees(down_payment, renovation_costs, purchase_fees) ==
    0 - (down_payment + renovation_costs)

\* year_0_cash_out
Year0CashOut(down_payment, renovation_costs, purchase_fees) ==
    0 - (down_payment + renovation_costs + purchase_fees)

\* initial_loan_balance
InitialLoanBalance(loan_amortization_schedule) ==
    IF loan_amortization_schedule # <<>>
    THEN loan_amortization_schedule[1].remaining_balance
    ELSE 0

\* the year-0 entry appended before the loop; a is the argument record
ProjectionYear0(a) ==
    LET year_0_cash_out ==
            Year0CashOut(a.down_payment, a.renovation_costs, a.purchase_fees)
        initial_loan_balance == InitialLoanBalance(a.loan_amortization_schedule)
    IN  [year |-> 0,
         rental_income |-> 0,
         vacancy_loss |-> 0,
         effective_rental_income |-> 0,
         operating_expenses |-> 0,
         mortgage_payment |-> 0,
         noi |-> 0,
         cash_flow |-> year_0_cash_out,
         cumulative_cash_flow |-> year_0_cash_out,
         property_value |-> a.initial_property_value,
         equity |-> a.initial_property_value - initial_loan_balance,
         remaining_loan_balance |-> initial_loan_balance]

\* cumulative_cf = cash_flow, a sum that restarts every year
AccumulateReset(cumulative_cf, cash_flow) == cash_flow

\* cumulative_cf += cash_flow
Accumulate(cumulative_cf, cash_flow) == cumulative_cf + cash_flow

\* debt service that goes on after the schedule has ended
AnnualMortgageForever(in_schedule, monthly_mortgage_payment) ==
    monthly_mortgage_payment * 12

\* annual_mortgage: 12 payments while the schedule reaches the year's end,
\* 0.0 once the loan is paid off
AnnualMortgage(in_schedule, monthly_mortgage_payment) ==
    IF in_schedule THEN monthly_mortgage_payment * 12 ELSE 0

\* one pass of the loop body; cumulative_cf and current_property_value are
\* the loop-carried variables as the previous pass left them
ProjectionYear(a, year, cumulative_cf, current_property_value) ==
    LET annual_rent == a.monthly_rent * 12
        annual_vacancy_loss == MulDiv(annual_rent, a.vacancy_rate, RateScale)
        effective_annual_rent == annual_rent - annual_vacancy_loss
        annual_opex == a.monthly_operating_expenses * 12
        month_index == year * 12 - 1
        in_schedule == month_index < Len(a.loan_amortization_schedule)
        remaining_balance ==
            IF in_schedule
            THEN a.loan_amortization_schedule[month_index + 1].remaining_balance
            ELSE 0
        annual_mortgage ==
            AnnualMortgage(in_schedule, a.monthly_mortgage_payment)
        noi == effective_annual_rent - annual_opex
        cash_flow == noi - annual_mortgage
        value == current_property_value
                    + MulDiv(current_property_value, a.appreciation_rate, RateScale)
    IN  [year |-> year,
         rental_income |-> annual_rent,
         vacancy_loss |-> annual_vacancy_loss,
         effective_rental_income |-> effective_annual_rent,
         operating_expenses |-> annual_opex,
         mortgage_payment |-> annual_mortgage,
         noi |-> noi,
         cash_flow |-> cash_flow,
         cumulative_cash_flow |-> Accumulate(cumulative_cf, cash_flow),
         property_value |-> value,
         equity |-> value - remaining_balance,
         remaining_loan_balance |-> remaining_balance]

\* the list `projections` after the loop has run for years 1..upto
RECURSIVE ProjectionsUpTo(_, _)
ProjectionsUpTo(a, upto) ==
    IF upto <= 0 THEN <<ProjectionYear0(a)>>
    ELSE LET prev == ProjectionsUpTo(a, upto - 1)
             last == prev[Len(prev)]
         IN  Append(prev, ProjectionYear(a, upto, last.cumulative_cash_flow,
                                         last.property_value))

calculate_cash_flow_projection(a) == ProjectionsUpTo(a, a.years)

-----------------------------------------------------------------------------
(* backend/data/rent_control.py                                            *)
(* A postal code is the sequence of its characters.  The tables hold the   *)
(* entries of the source tables for the postal codes the model uses; a     *)
(* band is <<min, max, median>> in cents per m2.  Python's None is <<>>.   *)
(* The en dash of the verdict texts is written as a hyphen, the accented   *)
(* letters of the region names without accents.                            *)

PC75001 == <<"7", "5", "0", "0", "1">>
PC75011 == <<"7", "5", "0", "1", "1">>
PC69001 == <<"6", "9", "0", "0", "1">>
PC33000 == <<"3", "3", "0", "0", "0">>
PC33500 == <<"3", "3", "5", "0", "0">>
PC92100 == <<"9", "2", "1", "0", "0">>
PC20000 == <<"2", "0", "0", "0", "0">>
PC20600 == <<"2", "0", "6", "0", "0">>
PC97100 == <<"9", "7", "1", "0", "0">>
PC98000 == <<"9", "8", "0", "0", "0">>

PostalCodes ==
    {PC75001, PC75011, PC69001, PC33000, PC33500, PC92100, PC20000, PC20600,
     PC97100, PC98000}

PARIS_RENT_CONTROL ==
    PC75001 :> <<2500, 3520, 3010>> @@ PC75011 :> <<2500, 3500, 3000>>

OTHER_CITIES_RENT_CONTROL ==
    PC69001 :> <<1400, 1960, 1680>> @@ PC33000 :> <<1250, 1750, 1500>>

REGIONAL_RENT_ESTIMATES ==
    "Ile-de-France" :> <<1800, 2800, 2300>>
    @@ "Auvergne-Rhone-Alpes" :> <<1000, 1600, 1300>>
    @@ "Nouvelle-Aquitaine" :> <<900, 1400, 1150>>
    @@ "Corse" :> <<1000, 1600, 1300>>

DEPARTMENT_TO_REGION ==
    <<"7", "5">> :> "Ile-de-France"
    @@ <<"9", "2">> :> "Ile-de-France"
    @@ <<"6", "9">> :> "Auvergne-Rhone-Alpes"
    @@ <<"3", "3">> :> "Nouvelle-Aquitaine"
    @@ <<"2", "0">> :> "Corse"
    @@ <<"2", "A">> :> "Corse"
    @@ <<"2", "B">> :> "Corse"

NATIONAL_AVERAGE_RENT == <<900, 1400, 1150>>

\* postal_code.startswith(prefix)
StartsWith(postal_code, prefix) ==
    /\ Len(postal_code) >= Len(prefix)
    /\ SubSeq(postal_code, 1, Len(prefix)) = prefix

\* a lookup that knows the Paris table only
get_rent_control_band_paris_only(postal_code) ==
    IF postal_code = <<>> \/ Len(postal_code) # 5 THEN <<>>
    ELSE IF postal_code \in DOMAIN PARIS_RENT_CONTROL
    THEN PARIS_RENT_CONTROL[postal_code]
    ELSE <<>>

get_rent_control_band(postal_code) ==
    IF postal_code = <<>> \/ Len(postal_code) # 5 THEN <<>>
    ELSE IF postal_code \in DOMAIN PARIS_RENT_CONTROL
    THEN PARIS_RENT_CONTROL[postal_code]
    ELSE IF postal_code \in DOMAIN OTHER_CITIES_RENT_CONTROL
    THEN OTHER_CITIES_RENT_CONTROL[postal_code]
    ELSE <<>>

\* dept_code
DeptCode(postal_code) ==
    IF StartsWith(postal_code, <<"9", "7">>) /\ Len(postal_code) = 5
    THEN SubSeq(postal_code, 1, 3)
    ELSE IF StartsWith(postal_code, <<"2", "0">>)
    THEN LET second_digit ==
                 IF Len(postal_code) > 2 THEN postal_code[3] ELSE "0"
         IN  IF second_digit \in {"0", "1", "2", "3", "4"}
             THEN <<"2", "A">>
             ELSE <<"2", "B">>
    ELSE SubSeq(postal_code, 1, 2)

\* an estimate that knows the listed regions only
get_regional_rent_estimateListed(postal_code) ==
    IF postal_code = <<>> \/ Len(postal_code) < 2 THEN <<>>
    ELSE LET dept_code == DeptCode(postal_code)
         IN  IF /\ dept_code \in DOMAIN DEPARTMENT_TO_REGION
                /\ DEPARTMENT_TO_REGION[dept_code] \in DOMAIN REGIONAL_RENT_ESTIMATES
             THEN REGIONAL_RENT_ESTIMATES[DEPARTMENT_TO_REGION[dept_code]]
             ELSE <<>>

get_regional_rent_estimate(postal_code) ==
    IF postal_code = <<>> \/ Len(postal_code) < 2 THEN <<>>
    ELSE LET dept_code == DeptCode(postal_code)
         IN  IF /\ dept_code \in DOMAIN DEPARTMENT_TO_REGION
                /\ DEPARTMENT_TO_REGION[dept_code] \in DOMAIN REGIONAL_RENT_ESTIMATES
             THEN REGIONAL_RENT_ESTIMATES[DEPARTMENT_TO_REGION[dept_code]]
             ELSE NATIONAL_AVERAGE_RENT

\* the verdict string of a legal band
LegalVerdict(rent_per_m2, min_rent, max_rent, median_rent) ==
    IF ~(FracGe(rent_per_m2, min_rent, 1) /\ FracLe(rent_per_m2, max_rent, 1))
    THEN IF FracGt(rent_per_m2, max_rent, 1)
         THEN "Non-conformant (exceeds maximum)"
         ELSE "Non-conformant (below minimum)"
    ELSE IF FracLe(rent_per_m2, median_rent, 1)
    THEN "Conformant - Low"
    ELSE "Conformant - High"

\* the verdict string of a regional estimate
EstimateVerdict(rent_per_m2, min_rent, max_rent, median_rent) ==
    IF FracGt(rent_per_m2, max_rent, 1) THEN "Above typical market range"
    ELSE IF FracLt(rent_per_m2, min_rent, 1) THEN "Below typical market range"
    ELSE IF FracLe(rent_per_m2, median_rent, 1) THEN "Within market range - Low"
    ELSE "Within market range - High"

\* compliance_percentage, in tenths of a percent
CompliancePercentage(monthly_rent, surface, min_rent, max_rent) ==
    IF max_rent > min_rent
    THEN ScaleDiv(monthly_rent - min_rent * surface,
                  (max_rent - min_rent) * surface, 3)
    ELSE 500

check_rent_compliance(postal_code, monthly_rent, surface) ==
    LET legal == get_rent_control_band(postal_code)
        is_estimate == legal = <<>>
        band == IF legal = <<>>
                THEN get_regional_rent_estimate(postal_code)
                ELSE legal
    IN  IF band = <<>> THEN <<>>
        ELSE LET min_rent == band[1]
                 max_rent == band[2]
                 median_rent == band[3]
                 property_rent_per_m2 == Frac(monthly_rent, surface)
             IN  [min_rent |-> min_rent,
                  max_rent |-> max_rent,
                  median_rent |-> median_rent,
                  property_rent_per_m2 |-> property_rent_per_m2,
                  total_monthly_rent |-> monthly_rent,
                  surface |-> surface,
                  is_compliant |->
                     /\ FracGe(property_rent_per_m2, min_rent, 1)
                     /\ FracLe(property_rent_per_m2, max_rent, 1),
                  compliance_percentage |->
                     CompliancePercentage(monthly_rent, surface, min_rent, max_rent),
                  verdict |->
                     IF is_estimate
                     THEN EstimateVerdict(property_rent_per_m2, min_rent,
                                          max_rent, median_rent)
                     ELSE LegalVerdict(property_rent_per_m2, min_rent,
                                       max_rent, median_rent),
                  is_estimate |-> is_estimate]

-----------------------------------------------------------------------------
(* backend/calculations/strategy_fit.py                                    *)
(* A score is in 1/1000 points.  The pros, cons and reasons texts of a     *)
(* StrategyFit are not modelled: nothing computed reads them.              *)

ScoreMax == 100000

\* an IRR: a rate in basis points, or float('nan'), which irr_calculation
\* returns when no IRR exists
Irr(bp) == [nan |-> FALSE, bp |-> bp]
IrrNaN == [nan |-> TRUE, bp |-> 0]

\* the normalisation without its final clamp
normalize_score_unclamped(value, min_val, max_val) ==
    IF max_val = min_val THEN 50000
    ELSE ScaleDiv(value - min_val, max_val - min_val, 5)

normalize_score(value, min_val, max_val) ==
    IF max_val = min_val THEN 50000
    ELSE Max(0, Min(ScoreMax, ScaleDiv(value - min_val, max_val - min_val, 5)))

\* normalize_score(dscr, min10/10, max10/10) for dscr a fraction: value and
\* bounds are all multiplied by 10 * dscr.den; +inf clamps to 100
NormalizeDscr(dscr, min10, max10) ==
    IF dscr.den = 0 THEN Max(0, Min(ScoreMax, ScoreMax))
    ELSE normalize_score(10 * dscr.num, min10 * dscr.den, max10 * dscr.den)

\* normalize_score(irr, min_val, max_val); max(0.0, min(100.0, nan)) is 100.0
NormalizeIrr(irr, min_val, max_val) ==
    IF irr.nan THEN ScoreMax ELSE normalize_score(irr.bp, min_val, max_val)

StrategyFit(strategy, score) == [strategy |-> strategy, score |-> score]

calculate_owner_occupier_fit(tmc, market_rent, dscr, price_discount_pct, legal_rent_compliant) ==
    LET net_cost_vs_rent == tmc - market_rent
        cost_score == normalize_score(0 - net_cost_vs_rent, 0 - 100000, 100000)
        discount_score == normalize_score(0 - price_discount_pct, 0 - 2000, 500)
    IN  StrategyFit("Owner-occupier", (cost_score * 6 + discount_score * 4) \div 10)

calculate_location_nue_fit(dscr, irr, legal_rent_compliant, bedrooms) ==
    LET dscr_score == NormalizeDscr(dscr, 8, 15)
        irr_score == NormalizeIrr(irr, 200, 1200)
        score == (dscr_score * 5 + irr_score * 5) \div 10
    IN  StrategyFit("Location nue (unfurnished)",
                    IF ~legal_rent_compliant THEN (score * 7) \div 10 ELSE score)

calculate_lmnp_fit(dscr, irr, legal_rent_compliant, bedrooms) ==
    LET dscr_score == NormalizeDscr(dscr, 8, 15)
        irr_score == NormalizeIrr(irr, 300, 1500)
        score == (dscr_score * 5 + irr_score * 5) \div 10
    IN  StrategyFit("LMNP (furnished, micro-BIC)",
                    IF ~legal_rent_compliant THEN (score * 7) \div 10 ELSE score)

calculate_colocation_fit(dscr, irr, bedrooms, legal_rent_compliant) ==
    LET dscr_score == NormalizeDscr(dscr, 8, 18)
        irr_score == NormalizeIrr(irr, 500, 2000)
        bedrooms_score == normalize_score(bedrooms, 1, 5)
        score == (dscr_score * 4 + irr_score * 4 + bedrooms_score * 2) \div 10
    IN  StrategyFit("Colocation",
                    IF bedrooms < 2 THEN (score * 3) \div 10 ELSE score)

calculate_value_add_fit(dscr, irr, price_discount_pct, dpe_grade) ==
    LET discount_score == normalize_score(0 - price_discount_pct, 0 - 3000, 0)
        irr_score == NormalizeIrr(irr, 800, 2500)
        dpe_score == IF dpe_grade \in {"E", "F", "G"} THEN ScoreMax ELSE 50000
    IN  StrategyFit("Value-Add / deficit foncier",
                    (discount_score * 4 + irr_score * 3 + dpe_score * 3) \div 10)

\* sorted(..., key=score, reverse=True) is stable: an element goes after
\* every element whose score is not lower than its own
RECURSIVE InsertByScore(_, _)
InsertByScore(sorted, fit) ==
    IF sorted = <<>> THEN <<fit>>
    ELSE IF Head(sorted).score >= fit.score
    THEN <<Head(sorted)>> \o InsertByScore(Tail(sorted), fit)
    ELSE <<fit>> \o sorted

RECURSIVE SortByScoreFrom(_, _)
SortByScoreFrom(sorted, rest) ==
    IF rest = <<>> THEN sorted
    ELSE SortByScoreFrom(InsertByScore(sorted, Head(rest)), Tail(rest))

\* the list in the order the scorers were called
Unsorted(strategies) == strategies

SortByScore(strategies) == SortByScoreFrom(<<>>, strategies)

\* a bundles the eight arguments
calculate_all_strategy_fits(a) ==
    SortByScore(
        <<calculate_owner_occupier_fit(a.tmc, a.market_rent, a.dscr,
                                       a.price_discount_pct, a.legal_rent_compliant),
          calculate_location_nue_fit(a.dscr, a.irr, a.legal_rent_compliant, a.bedrooms),
          calculate_lmnp_fit(a.dscr, a.irr, a.legal_rent_compliant, a.bedrooms),
          calculate_colocation_fit(a.dscr, a.irr, a.bedrooms, a.legal_rent_compliant),
          calculate_value_add_fit(a.dscr, a.irr, a.price_discount_pct, a.dpe_grade)>>)

-----------------------------------------------------------------------------
(* The two verdict ladders.                                                *)

\* a ladder whose first rung is strict
HttpVerdictBug(dscr) ==
    IF FracGt(dscr, 12, 10) THEN "BUY"
    ELSE IF FracGe(dscr, 10, 10) THEN "CAUTION"
    ELSE "PASS"

\* a ladder that answers CAUTION from DSCR 0.8
HttpVerdictCautionBand(dscr) ==
    IF FracGe(dscr, 12, 10) THEN "BUY"
    ELSE IF FracGe(dscr, 8, 10) THEN "CAUTION"
    ELSE "PASS"

\* backend/api/routes/evaluate.py, "Determine verdicts"
HttpVerdict(dscr) ==
    IF FracGe(dscr, 12, 10) THEN "BUY"
    ELSE IF FracGe(dscr, 10, 10) THEN "CAUTION"
    ELSE "PASS"

\* backend/cli/main.py, "# Verdict"
CliVerdict(dscr) ==
    IF FracGt(dscr, 12, 10) THEN "BUY"
    ELSE IF FracGt(dscr, 10, 10) THEN "CAUTION"
    ELSE "PASS"

-----------------------------------------------------------------------------
(* backend/cli/main.py: the evaluate command.                              *)

\* vacancy rate both front ends pass to vacancy_credit_loss (0.05)
VacancyRate == 500

\* placeholder annual operating expenses of the CLI (6000 EUR)
CliAnnualOE == 600000

CliLoans == {0, 4500000, 5400000, 6000000, 8400000, 28000000}
CliRates == {0, 300, 400}
CliTerms == {10, 20}
CliRents == {50000, 100000, 120000, 180000}
CliPrices == {35000000}

CliEvaluate(price, loan_amount, annual_rate, loan_term, monthly_rent) ==
    LET payment == monthly_payment(loan_amount, annual_rate, loan_term)
        gmi == gross_monthly_income(monthly_rent, 0)
        vcl == vacancy_credit_loss(gmi, VacancyRate)
        noi == noi_calculation(gmi, vcl, CliAnnualOE)
        ads == annual_debt_service(payment)
        dscr == dscr_calculation(noi, ads)
    IN  /\ cli_out' = [op |-> "evaluate",
                       price |-> price,
                       loan_amount |-> loan_amount,
                       annual_rate |-> annual_rate,
                       loan_term |-> loan_term,
                       monthly_rent |-> monthly_rent,
                       monthly_payment |-> payment,
                       noi |-> noi,
                       dscr |-> dscr,
                       cap_rate |-> cap_rate(noi, price),
                       verdict |-> CliVerdict(dscr)]
        /\ UNCHANGED <<pc, request, ctx, response, dvf, proj_call, rent_call, fit_call,
                   aside>>

CliRun ==
    /\ cli_out = None
    /\ \E price \in CliPrices, loan_amount \in CliLoans, annual_rate \in CliRates,
       loan_term \in CliTerms, monthly_rent \in CliRents :
        CliEvaluate(price, loan_amount, annual_rate, loan_term, monthly_rent)

-----------------------------------------------------------------------------
(* A direct call of calculate_cash_flow_projection, as the test-suite and  *)
(* the evaluate route make it: the schedule and the payment come from      *)
(* mortgage.py for one loan.                                               *)

\* longest projection the model calls for
MaxProjYears == 3

NoLoan == [principal |-> 0, annual_rate |-> 0, years |-> 1]

ProjLoans ==
    {NoLoan,
     [principal |-> 8400000, annual_rate |-> 0, years |-> 1],
     [principal |-> 10000000, annual_rate |-> 300, years |-> 2],
     [principal |-> 16000000, annual_rate |-> 400, years |-> 10]}

ProjInputs ==
    [initial_property_value : {20000000},
     monthly_rent : {100000, 150000},
     monthly_operating_expenses : {0, 25000},
     loan : ProjLoans,
     appreciation_rate : {0 - 200, 0, 300},
     vacancy_rate : {0, VacancyRate},
     years : 1..MaxProjYears,
     down_payment : {0, 4000000},
     renovation_costs : {0, 1000000},
     purchase_fees : {0, 1500000}]

\* the keyword arguments of the call made for one input
ProjArgs(inp) ==
    [initial_property_value |-> inp.initial_property_value,
     monthly_rent |-> inp.monthly_rent,
     monthly_operating_expenses |-> inp.monthly_operating_expenses,
     monthly_mortgage_payment |->
        monthly_payment(inp.loan.principal, inp.loan.annual_rate, inp.loan.years),
     loan_amortization_schedule |->
        amortization_schedule(inp.loan.principal, inp.loan.annual_rate, inp.loan.years),
     appreciation_rate |-> inp.appreciation_rate,
     vacancy_rate |-> inp.vacancy_rate,
     years |-> inp.years,
     down_payment |-> inp.down_payment,
     renovation_costs |-> inp.renovation_costs,
     purchase_fees |-> inp.purchase_fees]

ProjectionCall(inp) ==
    /\ proj_call = None
    /\ proj_call' = [op |-> "projection",
                     inp |-> inp,
                     result |-> calculate_cash_flow_projection(ProjArgs(inp))]
    /\ UNCHANGED <<pc, request, ctx, response, dvf, cli_out, rent_call, fit_call,
                   aside>>

ProjRun == \E inp \in ProjInputs : ProjectionCall(inp)

-----------------------------------------------------------------------------
(* A direct call of check_rent_compliance.                                 *)

RentInputsRent == {60000, 125000, 150500, 160000, 176000, 180000}
RentInputsSurface == {45, 50, 100}

RentCall(postal_code, monthly_rent, surface) ==
    /\ rent_call = None
    /\ rent_call' = [op |-> "compliance",
                     postal_code |-> postal_code,
                     monthly_rent |-> monthly_rent,
                     surface |-> surface,
                     result |->
                        check_rent_compliance(postal_code, monthly_rent, surface)]
    /\ UNCHANGED <<pc, request, ctx, response, dvf, cli_out, proj_call, fit_call,
                   aside>>

RentRun ==
    \E postal_code \in PostalCodes, monthly_rent \in RentInputsRent,
       surface \in RentInputsSurface :
        RentCall(postal_code, monthly_rent, surface)

-----------------------------------------------------------------------------
(* A direct call of calculate_all_strategy_fits.                           *)

\* most bedrooms a direct call passes
MaxBedrooms == 6

FitInputs ==
    [tmc : {50000, 185000, 350000},
     market_rent : {180000},
     dscr : {Frac(0 - 1, 2), Frac(4, 5), Frac(1, 1), Frac(6, 5), Frac(5, 2), FracInf},
     irr : {IrrNaN, Irr(0 - 500), Irr(300), Irr(800), Irr(3000)},
     price_discount_pct : {0 - 4000, 0 - 1000, 0, 1000},
     legal_rent_compliant : BOOLEAN,
     bedrooms : {0, 1, 2, MaxBedrooms},
     dpe_grade : {"A", "D", "G"}]

FitCall(a) ==
    /\ fit_call = None
    /\ fit_call' = [op |-> "fits", args |-> a,
                    result |-> calculate_all_strategy_fits(a)]
    /\ UNCHANGED <<pc, request, ctx, response, dvf, cli_out, proj_call, rent_call,
                   aside>>

FitRun == \E a \in FitInputs : FitCall(a)

-----------------------------------------------------------------------------
(* backend/data/appreciation_rates.py                                      *)
(* Rates in basis points, for the departments of the modelled postal codes. *)

DEPARTMENT_APPRECIATION_RATES ==
    <<"7", "5">> :> (0 - 290)
    @@ <<"9", "2">> :> (0 - 300)
    @@ <<"6", "9">> :> (0 - 100)
    @@ <<"3", "3">> :> (0 - 80)

FORWARD_ADJUSTMENT == 150

get_appreciation_rate(postal_code, forward_looking) ==
    LET department ==
            IF postal_code # <<>> /\ Len(postal_code) = 5
            THEN SubSeq(postal_code, 1, 2)
            ELSE <<>>
        base_rate ==
            IF department \in DOMAIN DEPARTMENT_APPRECIATION_RATES
            THEN DEPARTMENT_APPRECIATION_RATES[department]
            ELSE 50
    IN  IF forward_looking THEN base_rate + FORWARD_ADJUSTMENT ELSE base_rate

-----------------------------------------------------------------------------
(* backend/integrations/dvf.py                                             *)
(* A date string "YYYY-MM-DD" is the integer YYYYMMDD, whose order is the  *)
(* order of the strings; 0 is the empty or missing date.  A value of DVF   *)
(* is in cents, a price per m2 in cents per m2.  A record of the reply is  *)
(*   [shape |-> "object", nature_mutation, date_mutation,                  *)
(*    surface_reelle_bati, valeur_fonciere, valeur_is_text,                *)
(*    nombre_pieces_principales, dist]                                     *)
(* where valeur_is_text says that valeur_fonciere came as a JSON string,   *)
(* and dist is the haversine distance to the subject in metres (-1 when    *)
(* the record has no lat/lon); or [shape |-> "text"], a list element that  *)
(* is no JSON object.                                                      *)

DateYear(d) == d \div 10000
DateMonth(d) == (d \div 100) % 100
DateDay(d) == d % 100

IsLeap(y) == (y % 4 = 0 /\ y % 100 # 0) \/ y % 400 = 0

DaysInMonth(y, m) ==
    IF m = 2 THEN (IF IsLeap(y) THEN 29 ELSE 28)
    ELSE IF m \in {4, 6, 9, 11} THEN 30 ELSE 31

\* datetime.strptime(sale_date, "%Y-%m-%d") succeeds
Parseable(d) ==
    /\ DateYear(d) >= 1
    /\ DateMonth(d) \in 1..12
    /\ DateDay(d) \in 1..DaysInMonth(DateYear(d), DateMonth(d))

\* the day number of a date, as date.toordinal() counts it
ToOrdinal(d) ==
    LET y == DateYear(d)
        m == DateMonth(d)
        before_year == (y - 1) * 365 + (y - 1) \div 4 - (y - 1) \div 100
                          + (y - 1) \div 400
        before_month == <<0, 31, 59, 90, 120, 151, 181, 212, 243, 273, 304, 334>>[m]
                          + (IF m > 2 /\ IsLeap(y) THEN 1 ELSE 0)
    IN  before_year + before_month + DateDay(d)

\* weights are fractions of WeightScale
WeightScale == 10000

\* sum over k = from..upto of y^k / k!, term being y^(from-1) / (from-1)!
RECURSIVE ExpTerms(_, _, _, _)
ExpTerms(term, y, from, upto) ==
    IF from > upto THEN <<>>
    ELSE LET next == MulDiv(term, y, from * WeightScale)
         IN  <<next>> \o ExpTerms(next, y, from + 1, upto)

\* math.exp(-x) for 0 <= x, as the square of the series of exp(-x/2)
ExpNeg(x) ==
    IF x >= 24 * (WeightScale \div 10) THEN 0
    ELSE LET y == x \div 2
             terms == ExpTerms(WeightScale, y, 1, 10)
             plus == WeightScale + terms[2] + terms[4] + terms[6] + terms[8] + terms[10]
             minus == terms[1] + terms[3] + terms[5] + terms[7] + terms[9]
             half == plus - minus
         IN  MulDiv(half, half, WeightScale)

time_decay_weight(sale_date, reference_date) ==
    IF ~Parseable(sale_date) THEN WeightScale \div 2
    ELSE LET days == ToOrdinal(reference_date) - ToOrdinal(sale_date)
             \* decay_rate * years_ago = 0.1 * (days / 30.44) / 12
             x == ScaleDiv(Max(0, days), 36528, 5)
         IN  Max(WeightScale \div 10, ExpNeg(x))

\* in tenths
room_similarity_weight(subject_rooms, comp_rooms) ==
    LET diff == IF subject_rooms >= comp_rooms
                THEN subject_rooms - comp_rooms
                ELSE comp_rooms - subject_rooms
    IN  IF diff = 0 THEN 10
        ELSE IF diff = 1 THEN 9
        ELSE IF diff = 2 THEN 7
        ELSE 5

\* number of entries of a sorted list of priced entries, each counted
\* `count` times, whose price is below limit (strict) or at most limit
RECURSIVE CountUpTo(_, _, _)
CountUpTo(entries, limit, strict) ==
    IF entries = <<>> THEN 0
    ELSE (IF Head(entries).price < limit
             \/ (~strict /\ Head(entries).price = limit)
          THEN Head(entries).count ELSE 0)
         + CountUpTo(Tail(entries), limit, strict)

RECURSIVE TotalCount(_)
TotalCount(entries) ==
    IF entries = <<>> THEN 0
    ELSE Head(entries).count + TotalCount(Tail(entries))

\* prices.sort(); prices[k], for 0 <= k < TotalCount(entries)
SortedAt(entries, k) ==
    CHOOSE v \in {entries[i].price : i \in DOMAIN entries} :
        /\ CountUpTo(entries, v, TRUE) <= k
        /\ k < CountUpTo(entries, v, FALSE)

\* repeat_count of one comparable
RepeatCount(comp, reference_date, subject_rooms) ==
    LET time_weight == time_decay_weight(comp.date_mutation, reference_date)
        room_weight ==
            IF subject_rooms # 0 /\ comp.nombre_pieces_principales # 0
            THEN room_similarity_weight(subject_rooms,
                                        comp.nombre_pieces_principales)
            ELSE 10
    IN  Max(1, (time_weight * room_weight) \div WeightScale)

\* the mean is not modelled: no caller reads it
calculate_weighted_median_and_bands(comps, reference_date, subject_rooms) ==
    LET priced == SelectSeq(comps, LAMBDA c : c.price_per_m2 > 0)
        weighted_prices ==
            [i \in DOMAIN priced |->
                [price |-> priced[i].price_per_m2,
                 count |-> RepeatCount(priced[i], reference_date, subject_rooms)]]
        n == TotalCount(weighted_prices)
    IN  IF comps = <<>> \/ weighted_prices = <<>> THEN <<>>
        ELSE [median |->
                 IF n % 2 = 1 THEN SortedAt(weighted_prices, n \div 2)
                 ELSE (SortedAt(weighted_prices, n \div 2 - 1)
                         + SortedAt(weighted_prices, n \div 2)) \div 2,
              p25 |-> SortedAt(weighted_prices, (n * 25) \div 100),
              p75 |-> SortedAt(weighted_prices, (n * 75) \div 100),
              p10 |-> SortedAt(weighted_prices, (n * 10) \div 100),
              p90 |-> SortedAt(weighted_prices, (n * 90) \div 100),
              count |-> Len(comps)]

\* what one pass of the filter loop does with one record: it keeps it,
\* skips it (continue), or raises (record.get on a list element that is no
\* dict; valeur <= 0 on a valeur_fonciere that is a string)
RecordOutcome(record, surface, geo, radius_m, band, min_date) ==
    IF record.shape # "object" THEN "raise"
    ELSE IF record.nature_mutation # "Vente" THEN "skip"
    ELSE IF record.date_mutation = 0 \/ record.date_mutation < min_date
    THEN "skip"
    ELSE IF geo /\ radius_m # 0 /\ (record.dist < 0 \/ record.dist > radius_m)
    THEN "skip"
    ELSE IF record.surface_reelle_bati = 0 THEN "skip"
    ELSE IF record.valeur_is_text THEN "raise"
    ELSE IF record.valeur_fonciere <= 0 \/ record.surface_reelle_bati <= 0
    THEN "skip"
    ELSE IF \/ record.surface_reelle_bati * 1000 < surface * (1000 - band)
            \/ record.surface_reelle_bati * 1000 > surface * (1000 + band)
    THEN "skip"
    ELSE "keep"

\* the dict appended for a valid comp
Comp(record) ==
    [date_mutation |-> record.date_mutation,
     surface_reelle_bati |-> record.surface_reelle_bati,
     nombre_pieces_principales |-> record.nombre_pieces_principales,
     valeur_fonciere |-> record.valeur_fonciere,
     price_per_m2 |-> record.valeur_fonciere \div record.surface_reelle_bati,
     dist |-> record.dist]

\* the result of a call that raised
Raised == [raised |-> TRUE, comps |-> <<>>]

Returned(comps) == [raised |-> FALSE, comps |-> comps]

\* one of the two loops over raw_comps; band is the half-width of the
\* surface band in thousandths of the surface
FilterPass(raw_comps, surface, geo, radius_m, band, min_date) ==
    IF \E i \in DOMAIN raw_comps :
          RecordOutcome(raw_comps[i], surface, geo, radius_m, band, min_date) = "raise"
    THEN Raised
    ELSE LET kept == SelectSeq(raw_comps,
                        LAMBDA r : RecordOutcome(r, surface, geo, radius_m,
                                                 band, min_date) = "keep")
         IN  Returned([i \in DOMAIN kept |-> Comp(kept[i])])

\* "Remove outliers using P5-P95 clamp"
ClampP5P95(comps) ==
    IF comps = <<>> THEN comps
    ELSE LET prices == [i \in DOMAIN comps |->
                           [price |-> comps[i].price_per_m2, count |-> 1]]
             n == Len(comps)
             p5 == SortedAt(prices, (n * 5) \div 100)
             p95 == SortedAt(prices, (n * 95) \div 100)
         IN  SelectSeq(comps, LAMBDA c : p5 <= c.price_per_m2 /\ c.price_per_m2 <= p95)

\* geo: lat and lon are both truthy; radius_m = 0: no radius_km given
_filter_comps(raw_comps, surface, geo, radius_m, min_date_24m, min_date_36m) ==
    LET first == FilterPass(raw_comps, surface, geo, radius_m, 125, min_date_24m)
        second == FilterPass(raw_comps, surface, geo, radius_m, 175, min_date_36m)
    IN  IF first.raised THEN Raised
        ELSE IF Len(first.comps) < 12
        THEN (IF second.raised THEN Raised
              ELSE Returned(ClampP5P95(second.comps)))
        ELSE Returned(ClampP5P95(first.comps))

\* _fetch_raw_dvf_data: what the client makes of one HTTP exchange.  A reply
\* is of kind "timeout", "transport_error", "status" (a status code other
\* than 200), "invalid_json" (a 200 whose body is no JSON) or "json", whose
\* body is of shape "array" or of shape "object" with the keys resultats and
\* features, each of them Absent (no such key), JsonNull or
\* JsonList(records).  The value returned is of the same form,
\* JsonList(<<>>) being [].
Absent == [json |-> "absent", items |-> <<>>]

JsonNull == [json |-> "null", items |-> <<>>]

JsonList(items) == [json |-> "list", items |-> items]

_fetch_raw_dvf_data(reply) ==
    IF reply.kind = "timeout" THEN JsonList(<<>>)
    ELSE IF reply.kind = "transport_error" THEN JsonList(<<>>)
    ELSE IF reply.kind = "status" /\ reply.status_code # 200 THEN JsonList(<<>>)
    ELSE IF reply.kind = "invalid_json" THEN JsonList(<<>>)
    ELSE IF reply.body.shape # "object" THEN JsonList(<<>>)
    ELSE IF reply.body.resultats # Absent THEN reply.body.resultats
    ELSE IF reply.body.features # Absent THEN reply.body.features
    ELSE JsonList(<<>>)

MinDate24m == 20170101

MinDate36m == 20160101

\* the scope label f"{radius_km}km radius"
RadiusLabel(radius_m) ==
    IF radius_m = 400 THEN "0.4km radius"
    ELSE IF radius_m = 800 THEN "0.8km radius"
    ELSE "1.2km radius"

\* the loop over [0.4, 0.8, 1.2] from the given position on; the result has
\* found = FALSE when no radius gave min_comps comparables
RECURSIVE RadiusSearch(_, _, _, _)
RadiusSearch(all_comps, surface, radii, min_comps) ==
    IF radii = <<>>
    THEN [raised |-> FALSE, found |-> FALSE, comps |-> <<>>, geo_scope |-> <<>>]
    ELSE LET r == _filter_comps(all_comps, surface, TRUE, Head(radii),
                                MinDate24m, MinDate36m)
         IN  IF r.raised
             THEN [raised |-> TRUE, found |-> FALSE, comps |-> <<>>,
                   geo_scope |-> <<>>]
             ELSE IF Len(r.comps) >= min_comps
             THEN [raised |-> FALSE, found |-> TRUE, comps |-> r.comps,
                   geo_scope |-> <<RadiusLabel(Head(radii))>>]
             ELSE RadiusSearch(all_comps, surface, Tail(radii), min_comps)

\* at is <<>> when lat and lon are None, else <<lat, lon>>; reply is the
\* HTTP exchange the awaited _fetch_raw_dvf_data call went through
fetch_dvf_comps_progressive(postal_code, surface, at, rooms, min_comps, reply) ==
    LET fetched == _fetch_raw_dvf_data(reply)
        all_comps == fetched.items
        geo == at # <<>> /\ at[1] # 0 /\ at[2] # 0
        by_radius ==
            IF geo THEN RadiusSearch(all_comps, surface, <<400, 800, 1200>>, min_comps)
            ELSE [raised |-> FALSE, found |-> FALSE, comps |-> <<>>,
                  geo_scope |-> <<>>]
        commune == _filter_comps(all_comps, surface, geo, 0, MinDate24m, MinDate36m)
    IN  IF fetched = JsonNull \/ all_comps = <<>>
        THEN [raised |-> FALSE, comps |-> <<>>, geo_scope |-> <<"No data">>]
        ELSE IF by_radius.raised
        THEN [raised |-> TRUE, comps |-> <<>>, geo_scope |-> <<>>]
        ELSE IF by_radius.found
        THEN [raised |-> FALSE, comps |-> by_radius.comps,
              geo_scope |-> by_radius.geo_scope]
        ELSE IF commune.raised
        THEN [raised |-> TRUE, comps |-> <<>>, geo_scope |-> <<>>]
        ELSE [raised |-> FALSE, comps |-> commune.comps,
              geo_scope |-> <<"Commune", postal_code>>]

-----------------------------------------------------------------------------
(* backend/api/routes/evaluate.py: POST /api/evaluate.                     *)
(* The handler runs to its only await (the comparable-sales fetch), the    *)
(* DVF service answers or fails, and the handler resumes and responds.     *)
(* The texts of the response (summary, city, appreciation display and      *)
(* source) are not modelled; price_source is the record of the figures     *)
(* its text quotes.  npf.irr is a library root finder: its result is an    *)
(* input of the step.                                                      *)

\* min_comps=12 of the progressive fetch
MinComps == 12

\* fallback_ranges, low and high in cents per m2
FALLBACK_RANGES ==
    <<"7", "5">> :> <<950000, 1100000>>
    @@ <<"9", "2">> :> <<550000, 750000>>
    @@ <<"9", "3">> :> <<350000, 500000>>
    @@ <<"9", "4">> :> <<450000, 600000>>
    @@ <<"9", "1">> :> <<350000, 450000>>
    @@ <<"9", "5">> :> <<300000, 400000>>
    @@ <<"7", "8">> :> <<350000, 450000>>
    @@ <<"7", "7">> :> <<250000, 350000>>

\* fallback_ranges.get(department, {"low": 2000, "high": 4000, ...})
FallbackRange(postal_code) ==
    LET department == SubSeq(postal_code, 1, Min(2, Len(postal_code)))
    IN  IF department \in DOMAIN FALLBACK_RANGES
        THEN FALLBACK_RANGES[department]
        ELSE <<200000, 400000>>

\* the "3+ recent transactions" the fallback text speaks of
HasEnoughCompsFrom3(dvf_comps) == dvf_comps # <<>> /\ Len(dvf_comps) >= 3

\* if dvf_comps and len(dvf_comps) >= 12
HasEnoughComps(dvf_comps) == dvf_comps # <<>> /\ Len(dvf_comps) >= 12

\* "Determine price verdict based on P25-P75 band"
BandVerdict(price_per_m2, p25, p75) ==
    IF price_per_m2 < p25 THEN "Under-priced"
    ELSE IF price_per_m2 <= p75 THEN "Fair"
    ELSE "Over-priced"

FallbackVerdict(price_per_m2, low, high) ==
    IF price_per_m2 < low THEN "Under-priced"
    ELSE IF price_per_m2 <= high THEN "Average"
    ELSE "Overpriced"

\* price_verdict and price_source
PriceVerdict(postal_code, price_per_m2, rooms, dvf_comps, geo_scope, reference_date) ==
    IF HasEnoughComps(dvf_comps)
    THEN LET stats == calculate_weighted_median_and_bands(dvf_comps,
                                                          reference_date, rooms)
         IN  [price_verdict |-> BandVerdict(price_per_m2, stats.p25, stats.p75),
              price_source |-> [basis |-> "DVF",
                                count |-> Len(dvf_comps),
                                geo_scope |-> geo_scope,
                                median |-> stats.median,
                                low |-> stats.p25,
                                high |-> stats.p75]]
    ELSE LET fallback == FallbackRange(postal_code)
         IN  [price_verdict |-> FallbackVerdict(price_per_m2, fallback[1], fallback[2]),
              price_source |-> [basis |-> "typical market ranges",
                                count |-> 0,
                                geo_scope |-> <<>>,
                                median |-> 0,
                                low |-> fallback[1],
                                high |-> fallback[2]]]

\* CashFlowYear(...) built from one projection entry
CashFlowYearOf(p) ==
    [year |-> p.year,
     rental_income |-> p.rental_income,
     vacancy_loss |-> p.vacancy_loss,
     effective_rental_income |-> p.effective_rental_income,
     operating_expenses |-> p.operating_expenses,
     mortgage_payment |-> p.mortgage_payment,
     noi |-> p.noi,
     cash_flow |-> p.cash_flow,
     cumulative_cash_flow |-> p.cumulative_cash_flow,
     property_value |-> p.property_value,
     equity |-> p.equity]

\* a breakdown whose total leaves the renovation out
PurchaseCostsOfNoRenovation(req, costs_breakdown) ==
    [down_payment |-> req.down_payment,
     renovation_costs |-> req.renovation_costs,
     registration_duties |-> costs_breakdown.registration_duties,
     notaire_fees |-> costs_breakdown.notaire_fees,
     disbursements |-> costs_breakdown.disbursements,
     mortgage_fees |-> costs_breakdown.mortgage_fees,
     total_fees |-> costs_breakdown.total,
     total_cash_required |-> req.down_payment + costs_breakdown.total]

\* PurchaseCosts(...)
PurchaseCostsOf(req, costs_breakdown) ==
    [down_payment |-> req.down_payment,
     renovation_costs |-> req.renovation_costs,
     registration_duties |-> costs_breakdown.registration_duties,
     notaire_fees |-> costs_breakdown.notaire_fees,
     disbursements |-> costs_breakdown.disbursements,
     mortgage_fees |-> costs_breakdown.mortgage_fees,
     total_fees |-> costs_breakdown.total,
     total_cash_required |->
        req.down_payment + req.renovation_costs + costs_breakdown.total]

\* RentBand(...), or None outside every band
RentBandOf(rent_compliance) ==
    IF rent_compliance = <<>> THEN <<>>
    ELSE [min_rent |-> rent_compliance.min_rent,
          max_rent |-> rent_compliance.max_rent,
          median_rent |-> rent_compliance.median_rent,
          property_rent_per_m2 |-> rent_compliance.property_rent_per_m2,
          total_monthly_rent |-> rent_compliance.total_monthly_rent,
          surface |-> rent_compliance.surface,
          is_compliant |-> rent_compliance.is_compliant,
          compliance_percentage |-> rent_compliance.compliance_percentage,
          is_estimate |-> rent_compliance.is_estimate]

\* a flag taken from the rent control check of the request
LegalRentCompliantChecked(req) ==
    check_rent_compliance(req.postal_code, req.monthly_rent, req.surface).is_compliant

\* the legal_rent_compliant argument of calculate_all_strategy_fits:
\* "legal_rent_compliant=True,  # Would come from rent control check"
LegalRentCompliant(req) == TRUE

\* the locals of evaluate_property when it reaches the await; irr is what
\* irr_calculation returned
EvaluateLocals(req, irr) ==
    LET payment == monthly_payment(req.loan_amount, req.annual_rate, req.loan_term)
        monthly_opex == (req.monthly_rent * 25) \div 100
        annual_oe == monthly_opex * 12
        gmi == gross_monthly_income(req.monthly_rent, 0)
        vcl == vacancy_credit_loss(gmi, VacancyRate)
        noi == noi_calculation(gmi, vcl, annual_oe)
        ads == annual_debt_service(payment)
        dscr == dscr_calculation(noi, ads)
        coc == cash_on_cash(noi - ads, req.down_payment)
        appreciation_rate == get_appreciation_rate(req.postal_code, TRUE)
        schedule == amortization_schedule(req.loan_amount, req.annual_rate,
                                          req.loan_term)
        costs_breakdown ==
            calculate_french_purchase_costs(req.price, req.loan_amount > 0)
        projections ==
            calculate_cash_flow_projection(
                [initial_property_value |-> req.price + req.renovation_costs,
                 monthly_rent |-> req.monthly_rent,
                 monthly_operating_expenses |-> monthly_opex,
                 monthly_mortgage_payment |-> payment,
                 loan_amortization_schedule |-> schedule,
                 appreciation_rate |-> appreciation_rate,
                 vacancy_rate |-> VacancyRate,
                 years |-> req.projection_years,
                 down_payment |-> req.down_payment,
                 renovation_costs |-> req.renovation_costs,
                 purchase_fees |-> costs_breakdown.total])
        estimated_irr == IF irr.nan THEN Irr((coc * 8) \div 10) ELSE irr
        tmc == total_monthly_cost(payment, 20000, 10000, 0)
        fits ==
            calculate_all_strategy_fits(
                [tmc |-> tmc,
                 market_rent |-> req.monthly_rent,
                 dscr |-> dscr,
                 irr |-> estimated_irr,
                 price_discount_pct |-> 0,
                 legal_rent_compliant |-> LegalRentCompliant(req),
                 bedrooms |-> req.bedrooms,
                 dpe_grade |-> IF req.dpe = "" THEN "D" ELSE req.dpe])
    IN  [metrics |->
            [monthly_payment |-> payment,
             noi |-> noi,
             dscr |-> dscr,
             cap_rate |-> cap_rate(noi, req.price),
             cash_on_cash |-> coc,
             irr |-> estimated_irr,
             price_per_m2 |-> req.price \div req.surface,
             ltv |-> ltv_ratio(req.loan_amount, req.price),
             appreciation_rate |-> appreciation_rate],
         costs_breakdown |-> costs_breakdown,
         cash_flow_years |->
            [i \in DOMAIN projections |-> CashFlowYearOf(projections[i])],
         fits |-> fits,
         verdict |-> HttpVerdict(dscr),
         dvf_comps |-> <<>>,
         geo_scope |-> <<>>]

\* --- the requests the model serves -----------------------------------------
\* a request without dpe has dpe = ""

BaseRequest ==
    [postal_code |-> PC75001, price |-> 45000000, surface |-> 50,
     rooms |-> 2, bedrooms |-> 1, dpe |-> "",
     down_payment |-> 9000000, loan_amount |-> 8400000, annual_rate |-> 0,
     loan_term |-> 10, monthly_rent |-> 120000, projection_years |-> 2,
     renovation_costs |-> 0]

\* price 350000, surface 45, rooms 2, loan 280000 at 3 % over 20 years,
\* rent 1800
BreakEvenRequest ==
    [postal_code |-> PC75001, price |-> 35000000, surface |-> 45,
     rooms |-> 2, bedrooms |-> 1, dpe |-> "",
     down_payment |-> 7000000, loan_amount |-> 28000000, annual_rate |-> 300,
     loan_term |-> 20, monthly_rent |-> 180000, projection_years |-> 2,
     renovation_costs |-> 0]

\* price 800000, surface 60, rooms 3, loan 640000 at 4 % over 20 years,
\* rent 1500
NegativeRequest ==
    [postal_code |-> PC75001, price |-> 80000000, surface |-> 60,
     rooms |-> 3, bedrooms |-> 2, dpe |-> "",
     down_payment |-> 16000000, loan_amount |-> 64000000, annual_rate |-> 400,
     loan_term |-> 20, monthly_rent |-> 150000, projection_years |-> 2,
     renovation_costs |-> 0]

\* DSCR infinite, above 1.2, exactly 1.2, between, exactly 1.0, below
LoanRequests ==
    {[BaseRequest EXCEPT !.loan_amount = l] :
        l \in {0, 6000000, 8400000, 9000000, 10080000, 12000000}}

\* 8000, 9000, 9500, 10000, 11000 and 12000 per m2
PriceRequests ==
    {[BaseRequest EXCEPT !.price = p] :
        p \in {40000000, 45000000, 47500000, 50000000, 55000000, 60000000}}

\* a department of the fallback table and one outside it
DepartmentRequests ==
    {[BaseRequest EXCEPT !.postal_code = c, !.price = p] :
        c \in {PC92100, PC69001},
        p \in {10000000, 20000000, 27500000, 37500000, 45000000}}

ProfileRequests ==
    {[BaseRequest EXCEPT !.bedrooms = b, !.dpe = d, !.renovation_costs = r,
                         !.projection_years = y, !.loan_amount = 10080000] :
        b \in {1, 3}, d \in {"", "F"}, r \in {0, 1000000},
        y \in {1, MaxProjYears}}

\* bought without a loan: a price of 1 or 800000, a rent of 0.01 or 1200,
\* the rate field 0 or 4 %
CashRequests ==
    {[BaseRequest EXCEPT !.loan_amount = 0, !.price = p,
                         !.monthly_rent = r, !.annual_rate = 400] :
        p \in {100, 80000000}, r \in {1, 120000}}

\* codes of no rent-controlled city: Corsica, Guadeloupe, Monaco
CodeRequests ==
    {[BaseRequest EXCEPT !.postal_code = c] : c \in {PC20600, PC97100, PC98000}}

Requests ==
    LoanRequests \cup PriceRequests \cup DepartmentRequests
        \cup ProfileRequests \cup CashRequests \cup CodeRequests
        \cup {BreakEvenRequest, NegativeRequest}

IrrOutcomes == {IrrNaN, Irr(0 - 500), Irr(900)}

\* --- the replies of the DVF service -----------------------------------------

Sale(date, surface_bati, valeur, pieces) ==
    [shape |-> "object", nature_mutation |-> "Vente", date_mutation |-> date,
     surface_reelle_bati |-> surface_bati, valeur_fonciere |-> valeur,
     valeur_is_text |-> FALSE, nombre_pieces_principales |-> pieces,
     dist |-> 0 - 1]

SaleLow == Sale(20180315, 50, 40000000, 2)
SaleMid == Sale(20180601, 50, 45000000, 2)
SaleHigh == Sale(20181120, 50, 50000000, 5)
\* in the 36-month window only, and in no band of +-12.5 % around 50 m2
SaleOld == Sale(20160615, 58, 69600000, 3)
\* a date strptime rejects
SaleUndated == Sale(20180000, 50, 45000000, 0)
\* a sale with coordinates, 300 m from the property
SaleNear == [SaleMid EXCEPT !.dist = 300]
Exchange == [SaleMid EXCEPT !.nature_mutation = "Echange"]
ZeroValue == [SaleMid EXCEPT !.valeur_fonciere = 0]
\* "valeur_fonciere": "450000"
TextValue == [SaleMid EXCEPT !.valeur_is_text = TRUE]
\* a list element that is a JSON string
TextElement == [shape |-> "text"]

Repeat(record, n) == [i \in 1..n |-> record]

\* numbers of SaleLow, SaleMid, SaleHigh and SaleOld records in a reply
SaleMixes ==
    {<<0, 0, 0, 0>>, <<0, 11, 0, 0>>, <<0, 12, 0, 0>>, <<0, 11, 0, 1>>,
     <<1, 11, 0, 0>>, <<4, 4, 4, 0>>, <<6, 6, 6, 0>>, <<1, 19, 1, 0>>,
     <<3, 6, 2, 1>>, <<6, 0, 6, 0>>, <<10, 1, 10, 0>>, <<2, 0, 0, 0>>}

\* what else the list holds
Extras ==
    {<<>>, <<Exchange, ZeroValue, SaleUndated>>, <<TextElement>>, <<TextValue>>}

SaleList(mix, extra) ==
    Repeat(SaleLow, mix[1]) \o Repeat(SaleMid, mix[2]) \o extra
        \o Repeat(SaleHigh, mix[3]) \o Repeat(SaleOld, mix[4])

JsonObject(resultats, features) ==
    [kind |-> "json", status_code |-> 200,
     body |-> [shape |-> "object", resultats |-> resultats, features |-> features]]

\* an exchange that gave no JSON body
Failure(kind, status_code) ==
    [kind |-> kind, status_code |-> status_code,
     body |-> [shape |-> "none", resultats |-> Absent, features |-> Absent]]

DvfReplies ==
    {Failure("timeout", 0), Failure("transport_error", 0),
     Failure("status", 503), Failure("invalid_json", 200),
     [kind |-> "json", status_code |-> 200,
      body |-> [shape |-> "array", resultats |-> Absent, features |-> Absent]],
     JsonObject(JsonNull, Absent), JsonObject(Absent, Absent),
     JsonObject(Absent, JsonList(Repeat(SaleMid, 12))),
     JsonObject(JsonList(Repeat(SaleNear, 12)), Absent)}
    \cup {JsonObject(JsonList(SaleList(mix, extra)), Absent) :
            mix \in SaleMixes, extra \in Extras}

\* datetime.now() when the handler resumes
ReferenceDates == {20190701, 20261103}

\* --- the steps ---------------------------------------------------------------

\* the handler from its entry to the await on fetch_dvf_comps_progressive
EvaluateStart(req, irr) ==
    /\ pc = "idle"
    /\ request' = req
    /\ ctx' = EvaluateLocals(req, irr)
    /\ dvf' = [state |-> "sent",
               code_postal |-> req.postal_code,
               type_local |-> "Appartement",
               reply |-> None]
    /\ pc' = "await_dvf"
    /\ UNCHANGED <<response, cli_out, proj_call, rent_call, fit_call,
                   aside>>

\* api.cquest.org answers, or the exchange fails
DvfRespond(reply) ==
    /\ pc = "await_dvf"
    /\ dvf.state = "sent"
    /\ dvf' = [dvf EXCEPT !.state = "replied", !.reply = reply]
    /\ UNCHANGED <<pc, request, ctx, response, cli_out, proj_call, rent_call,
                   fit_call,
                   aside>>

\* coordinates a geocoding service would give: a point of Paris, in
\* 1/10000 degree
GeocodedCoordinates(req) == <<488566, 23522>>

\* the lat and lon the handler passes to the search: lat=None, lon=None
EvaluateCoordinates(req) == <<>>

\* the handler from the await to its return, or to the except clause that
\* turns any exception into HTTPException(500): where it ends, its locals
\* and its response
EvaluateReturn(req, locals, reply, reference_date) ==
    LET fetched == fetch_dvf_comps_progressive(req.postal_code,
                          req.surface, EvaluateCoordinates(req), req.rooms,
                          MinComps, reply)
        priced == PriceVerdict(req.postal_code, locals.metrics.price_per_m2,
                               req.rooms, fetched.comps,
                               fetched.geo_scope, reference_date)
        rent_compliance == check_rent_compliance(req.postal_code,
                               req.monthly_rent, req.surface)
    IN  IF fetched.raised
        THEN [pc |-> "failed",
              ctx |-> locals,
              response |-> [status_code |-> 500,
                            detail |-> "Evaluation failed"]]
        ELSE [pc |-> "done",
              ctx |-> [locals EXCEPT !.dvf_comps = fetched.comps,
                                     !.geo_scope = fetched.geo_scope],
              response |->
                  [status_code |-> 200,
                   verdict |-> locals.verdict,
                   price_verdict |-> priced.price_verdict,
                   legal_rent_status |->
                      IF rent_compliance # <<>>
                      THEN rent_compliance.verdict
                      ELSE "No rent control in this area",
                   metrics |-> locals.metrics,
                   strategy_fits |->
                      SubSeq(locals.fits, 1, Min(3, Len(locals.fits))),
                   cash_flow_projections |-> locals.cash_flow_years,
                   rent_band |-> RentBandOf(rent_compliance),
                   price_source |-> priced.price_source,
                   purchase_costs |->
                      PurchaseCostsOf(req, locals.costs_breakdown)]]

EvaluateResume(reference_date) ==
    /\ pc = "await_dvf"
    /\ dvf.state = "replied"
    /\ \E returned \in {EvaluateReturn(request, ctx, dvf.reply, reference_date)} :
          /\ pc' = returned.pc
          /\ ctx' = returned.ctx
          /\ response' = returned.response
    /\ UNCHANGED <<request, dvf, cli_out, proj_call, rent_call, fit_call,
                   aside>>

-----------------------------------------------------------------------------
(* backend/parsers/listing.py and POST /api/parse/text                     *)
(* (backend/api/routes/parse.py).                                          *)
(* A pasted text is a sequence of tokens separated by single spaces: runs  *)
(* of digits, and the words "EUR" (the euro sign), "m2" (m followed by a   *)
(* superscript two), "pieces" and "chambres".  A digit run is kept as the  *)
(* sequence of its characters, with its value.  Python's None, and a key   *)
(* that a dict lacks, is <<>>; a value v that is there is <<v>>.           *)

\* the variables every step of this and the following sections leaves alone
core == <<pc, request, ctx, response, cli_out, proj_call, rent_call, fit_call, dvf, search_call, settings_load, paris_call, risk_call, city_call>>

Number(digits, value) ==
    [kind |-> "number", digits |-> digits, word |-> "", value |-> value]

Word(word) == [kind |-> "word", digits |-> <<>>, word |-> word, value |-> 0]

Tokens ==
    {Number(<<"3">>, 3), Number(<<"4", "5">>, 45), Number(PC75011, 75011),
     Number(PC92100, 92100), Number(PC69001, 69001),
     Word("EUR"), Word("m2"), Word("pieces"), Word("chambres")}

\* longest pasted text, in tokens
MaxTokens == 3

Texts == UNION {[1..n -> Tokens] : n \in 0..MaxTokens}

\* re.search(r"(\d+)\s*<unit>", html_content): the first digit run that the
\* unit follows
NumberBefore(html_content, unit) ==
    LET hits == {i \in 1..(Len(html_content) - 1) :
                    /\ html_content[i].kind = "number"
                    /\ html_content[i + 1].word = unit}
    IN  IF hits = {} THEN <<>>
        ELSE <<html_content[CHOOSE i \in hits : \A j \in hits : i <= j].value>>

RECURSIVE JoinDigits(_, _, _)
\* match.group(1).replace(" ", "").replace(".", "") over the tokens i..j
JoinDigits(html_content, i, j) ==
    IF i > j THEN <<>>
    ELSE html_content[i].digits \o JoinDigits(html_content, i + 1, j)

\* re.search(r"(\d[\d\s\.]*)\s*€", html_content) and float(price_str): the
\* first digit runs, spaces between them, that the euro sign follows; the
\* price is kept as its decimal numeral
PriceMatch(html_content) ==
    LET runs == {r \in (1..Len(html_content)) \X (1..Len(html_content)) :
                    /\ r[1] <= r[2]
                    /\ r[2] < Len(html_content)
                    /\ \A k \in r[1]..r[2] : html_content[k].kind = "number"
                    /\ html_content[r[2] + 1].word = "EUR"}
    IN  IF runs = {} THEN <<>>
        ELSE LET r == CHOOSE r \in runs : \A q \in runs : r[1] <= q[1]
             IN  <<JoinDigits(html_content, r[1], r[2])>>

\* re.search(r"\b(\d{5})\b", html_content)
PostalMatch(html_content) ==
    LET hits == {i \in 1..Len(html_content) :
                    /\ html_content[i].kind = "number"
                    /\ Len(html_content[i].digits) = 5}
    IN  IF hits = {} THEN <<>>
        ELSE <<html_content[CHOOSE i \in hits : \A j \in hits : i <= j].digits>>

parse_listing_html(html_content) ==
    LET postal_match == PostalMatch(html_content)
        city ==
            IF postal_match = <<>> THEN <<>>
            ELSE IF StartsWith(postal_match[1], <<"7", "5">>) THEN <<"Paris">>
            ELSE IF StartsWith(postal_match[1], <<"9", "2">>)
            THEN <<"Hauts-de-Seine">>
            ELSE IF StartsWith(postal_match[1], <<"9", "3">>)
            THEN <<"Seine-Saint-Denis">>
            ELSE IF StartsWith(postal_match[1], <<"9", "4">>)
            THEN <<"Val-de-Marne">>
            ELSE <<>>
    IN  [address |-> [street |-> <<>>, city |-> city,
                      postal_code |-> postal_match],
         price |-> PriceMatch(html_content),
         surface |-> NumberBefore(html_content, "m2"),
         rooms |-> NumberBefore(html_content, "pieces"),
         bedrooms |-> NumberBefore(html_content, "chambres"),
         floor |-> <<>>,
         dpe |-> <<>>,
         description |-> <<>>,
         features |-> <<>>]

normalize_listing_data(raw_data) ==
    LET normalized ==
            [raw_data EXCEPT
                !.address.city = IF raw_data.address.city = <<>>
                                 THEN <<"Paris">>
                                 ELSE raw_data.address.city]
    IN  IF normalized.bedrooms = <<>> /\ normalized.rooms # <<>>
           /\ normalized.rooms[1] # 0
        THEN [normalized EXCEPT
                !.bedrooms = <<Max(1, normalized.rooms[1] - 1)>>]
        ELSE normalized

\* a value of Python type dict, and None, as the address of a ParseResponse
Dict(address) ==
    [type |-> "dict", street |-> address.street, city |-> address.city,
     postal_code |-> address.postal_code]

NoAddress ==
    [type |-> "NoneType", street |-> <<>>, city |-> <<>>, postal_code |-> <<>>]

\* ParseResponse(**fields): pydantic validates address as Optional[str]
ParseResponse(fields) ==
    IF fields.address.type \in {"str", "NoneType"}
    THEN [raised |-> FALSE, value |-> fields]
    ELSE [raised |-> TRUE, value |-> fields]

parse_text(html_content) ==
    LET parsed_data == parse_listing_html(html_content)
        normalized == normalize_listing_data(parsed_data)
        \* a dict is true when it has a key
        address_given ==
            \E k \in {"street", "city", "postal_code"} :
                normalized.address[k] # <<>>
        \* re.search(r"75\d{3}", str(normalized["address"]))
        postal_code ==
            IF address_given /\ normalized.address.postal_code # <<>>
               /\ StartsWith(normalized.address.postal_code[1], <<"7", "5">>)
            THEN normalized.address.postal_code
            ELSE <<>>
        built ==
            ParseResponse(
                [success |-> TRUE,
                 message |-> "Property details extracted successfully!",
                 error |-> "",
                 address |-> Dict(normalized.address),
                 postal_code |-> postal_code,
                 price |-> normalized.price,
                 surface |-> normalized.surface,
                 rooms |-> normalized.rooms,
                 bedrooms |-> normalized.bedrooms,
                 floor |-> normalized.floor,
                 dpe |-> normalized.dpe])
    IN  IF ~built.raised THEN built.value
        ELSE [success |-> FALSE,
              message |-> "Failed to extract property details",
              error |-> "ValidationError",
              address |-> NoAddress,
              postal_code |-> <<>>,
              price |-> <<>>,
              surface |-> <<>>,
              rooms |-> <<>>,
              bedrooms |-> <<>>,
              floor |-> <<>>,
              dpe |-> <<>>]

\* POST /api/parse/text with a pasted text
ParseText(html_content) ==
    /\ parse_call = None
    /\ parse_call' = [op |-> "parse_text",
                      html_content |-> html_content,
                      parsed |-> normalize_listing_data(
                                    parse_listing_html(html_content)),
                      result |-> parse_text(html_content)]
    /\ UNCHANGED <<core, amort_call, delta_call, tool, run, drafts, sessions>>

ParseRun == \E html_content \in Texts : ParseText(html_content)
-----------------------------------------------------------------------------
(* backend/integrations/gmail.py, backend/agents/negotiation and           *)
(* backend/agents/deal_evaluator: the evaluator agent's two tools, the     *)
(* sub-agent run each of them awaits, and the draft tool the negotiation   *)
(* sub-agent may call during its run.  An argument that is None is <<>>,   *)
(* one that is a string s is <<s>>; prices are in euros.  What the         *)
(* language model decides - which tool calls a run makes, with which       *)
(* arguments, and whether the run ends in an exception - is an input.      *)

\* f"draft_placeholder_{hash(to + subject)}", the hash kept as the string hashed
DraftId(hashed) == [prefix |-> "draft_placeholder", hashed |-> hashed]

\* gmail.create_draft: what it returns, or the exception it re-raises
create_draft(to, subject) ==
    IF to = <<>> \/ subject = <<>>
    THEN [raised |-> TRUE, draft_id |-> DraftId(<<>>),
          error |-> "Failed to create draft: TypeError"]
    ELSE [raised |-> FALSE, draft_id |-> DraftId(<<to[1] \o subject[1]>>),
          error |-> ""]

\* tools.create_gmail_draft_tool: logs and re-raises
create_gmail_draft_tool(to, subject) == create_draft(to, subject)

\* the except clause without its return
DraftFailureRaised(e, recipient_email, property_address) ==
    [raised |-> TRUE, success |-> FALSE, error |-> e,
     draft_id |-> DraftId(<<>>),
     recipient |-> <<>>,
     property_address |-> <<>>,
     discount_percent |-> Frac(0, 1)]

\* the except clause of create_negotiation_email_draft
DraftFailure(e, recipient_email, property_address) ==
    [raised |-> FALSE, success |-> FALSE, error |-> e,
     draft_id |-> DraftId(<<>>),
     recipient |-> recipient_email,
     property_address |-> property_address,
     discount_percent |-> Frac(0, 1)]

create_negotiation_email_draft(a) ==
    IF a.asking_price = 0
    THEN DraftFailure("ZeroDivisionError", a.recipient_email,
                      a.property_address)
    ELSE LET discount_pct ==
                 Frac((a.asking_price - a.proposed_price) * 100,
                      a.asking_price)
             made == create_gmail_draft_tool(a.recipient_email, a.subject)
         IN  IF made.raised
             THEN DraftFailure(made.error, a.recipient_email,
                               a.property_address)
             ELSE [raised |-> FALSE, success |-> TRUE, error |-> "",
                   draft_id |-> made.draft_id,
                   recipient |-> a.recipient_email,
                   property_address |-> a.property_address,
                   discount_percent |-> discount_pct]

\* the envelope of invoke_research_agent and of invoke_negotiation_agent
Envelope(success, data, draft_id, error, message) ==
    [raised |-> FALSE, success |-> success, data |-> data,
     draft_id |-> draft_id, error |-> error, message |-> message]

\* an except clause that lets the exception go on
ToolExceptReraise(name, e) ==
    [raised |-> TRUE, success |-> FALSE, data |-> "",
     draft_id |-> DraftId(<<>>), error |-> e, message |-> ""]

\* the except clause of the two tools
ToolExcept(name, e) ==
    Envelope(FALSE, "", DraftId(<<>>), e,
             IF name = "invoke_research_agent" THEN "Research failed"
             ELSE "Draft creation failed")

\* the return of the two tools after a run that ended, and their except
\* clause after one that raised
ToolReturn(name, outcome) ==
    IF outcome.raised THEN ToolExcept(name, outcome.error)
    ELSE IF name = "invoke_research_agent"
    THEN Envelope(TRUE, outcome.data, DraftId(<<>>), "", "Research completed")
    ELSE Envelope(TRUE, "", DraftId(<<>>), "", "Draft created successfully")

\* ctx.deps of the evaluator: the dependencies, or None
EvaluatorDeps ==
    {<<[brave_api_key |-> "key", gmail_credentials_path |-> "credentials.json",
        gmail_token_path |-> "token.json"]>>,
     <<>>}

ToolNames == {"invoke_research_agent", "invoke_negotiation_agent"}

\* the arguments a run of the negotiation sub-agent gives the draft tool
DraftArguments ==
    [recipient_email : {<<"seller@example.com">>, <<>>},
     subject : {<<"Offer for Property at 10 rue de Rivoli">>},
     property_address : {<<"10 rue de Rivoli">>},
     asking_price : {0, 500000},
     proposed_price : {450000, 500000}]

\* how a sub-agent run ends
RunOutcomes ==
    {[raised |-> FALSE, data |-> "report", error |-> ""],
     [raised |-> TRUE, data |-> "", error |-> "UnexpectedModelBehavior"],
     [raised |-> TRUE, data |-> "", error |-> "UsageLimitExceeded"]}

\* most draft-tool calls in one run
MaxToolCalls == 2

\* a tool from its entry to the await on the sub-agent's run; without
\* dependencies the attribute access raises inside the try block
InvokeTool(name, deps) ==
    /\ tool = None
    /\ IF deps = <<>>
       THEN /\ tool' = [name |-> name,
                        pc |-> IF ToolExcept(name, "AttributeError").raised
                               THEN "raised" ELSE "returned",
                        outcome |-> [raised |-> TRUE, data |-> "",
                                     error |-> "AttributeError"],
                        result |-> ToolExcept(name, "AttributeError")]
            /\ run' = run
       ELSE /\ tool' = [name |-> name, pc |-> "await_run",
                        outcome |-> [raised |-> FALSE, data |-> "",
                                     error |-> ""],
                        result |-> Envelope(FALSE, "", DraftId(<<>>), "", "")]
            /\ run' = [agent |-> name, calls |-> <<>>]
    /\ UNCHANGED <<core, parse_call, amort_call, delta_call, drafts, sessions>>

\* the negotiation sub-agent calls create_negotiation_email_draft
CallDraftTool(a) ==
    /\ tool # None
    /\ tool.pc = "await_run"
    /\ tool.name = "invoke_negotiation_agent"
    /\ Len(run.calls) < MaxToolCalls
    /\ LET payload == create_negotiation_email_draft(a)
       IN  /\ run' = [run EXCEPT
                        !.calls = Append(@,
                            [args |-> a, payload |-> payload])]
           /\ drafts' = IF payload.success
                        THEN drafts \cup {payload.draft_id}
                        ELSE drafts
    /\ UNCHANGED <<core, parse_call, amort_call, delta_call, tool, sessions>>

\* the run ends and the tool returns
RunEnds(outcome) ==
    /\ tool # None
    /\ tool.pc = "await_run"
    /\ tool' = [tool EXCEPT !.pc = IF ToolReturn(tool.name, outcome).raised
                                   THEN "raised" ELSE "returned",
                            !.outcome = outcome,
                            !.result = ToolReturn(tool.name, outcome)]
    /\ UNCHANGED <<core, parse_call, amort_call, delta_call, run, drafts,
                   sessions>>
-----------------------------------------------------------------------------
(* Concurrent POST /api/evaluate requests on one event loop.  Each request *)
(* is served by its own evaluate_property coroutine, whose frame holds the *)
(* request, the locals, the HTTP exchange with the DVF service and the     *)
(* response; the coroutines change hands at the await only.                *)

\* the requests that the server holds at once
MaxRequests == 2

RequestIds == 1..MaxRequests

\* the locals of the coroutine that serves the latest request
LatestLocals(frames, id) ==
    frames[CHOOSE j \in RequestIds :
              /\ frames[j] # None
              /\ \A k \in RequestIds : k > j => frames[k] = None].ctx

\* the locals that the coroutine of request id finds after its await
Locals(frames, id) == frames[id].ctx

\* the last one is BaseRequest with a surface of 40 m2 instead of 50 m2:
\* 30 per m2, within the band of 75001, instead of 24 per m2, below it
ConcurrentRequests ==
    {BaseRequest, NegativeRequest, [BaseRequest EXCEPT !.surface = 40]}

ConcurrentReplies ==
    {Failure("timeout", 0),
     JsonObject(JsonList(Repeat(SaleMid, 12)), Absent),
     JsonObject(JsonList(<<TextElement>>), Absent)}

\* request id: the handler from its entry to the await
SessionStart(id, req, irr) ==
    /\ sessions[id] = None
    /\ sessions' = [sessions EXCEPT ![id] =
            [op |-> "evaluate",
             pc |-> "await_dvf",
             request |-> req,
             irr |-> irr,
             ctx |-> EvaluateLocals(req, irr),
             dvf |-> [state |-> "sent",
                      code_postal |-> req.postal_code,
                      type_local |-> "Appartement",
                      reply |-> None],
             reference_date |-> 0,
             response |-> None]]
    /\ UNCHANGED <<core, parse_call, amort_call, delta_call, tool, run, drafts>>

\* request id: api.cquest.org answers, or the exchange fails
SessionDvfRespond(id, reply) ==
    /\ sessions[id] # None
    /\ sessions[id].pc = "await_dvf"
    /\ sessions[id].dvf.state = "sent"
    /\ sessions' = [sessions EXCEPT ![id].dvf.state = "replied",
                                    ![id].dvf.reply = reply]
    /\ UNCHANGED <<core, parse_call, amort_call, delta_call, tool, run, drafts>>

\* request id: the handler from the await to its return
SessionResume(id, reference_date) ==
    /\ sessions[id] # None
    /\ sessions[id].pc = "await_dvf"
    /\ sessions[id].dvf.state = "replied"
    /\ \E returned \in {EvaluateReturn(sessions[id].request,
                                         Locals(sessions, id),
                                         sessions[id].dvf.reply,
                                         reference_date)} :
          sessions' = [sessions EXCEPT ![id].pc = returned.pc,
                                       ![id].ctx = returned.ctx,
                                       ![id].reference_date = reference_date,
                                       ![id].response = returned.response]
    /\ UNCHANGED <<core, parse_call, amort_call, delta_call, tool, run, drafts>>
-----------------------------------------------------------------------------
(* A direct call of amortization_schedule.                                 *)

\* longest loan term of a direct call, in years
MaxAmortYears == 3

AmortPrincipals == {0, 1200000, 10000000, 28000000, 30000000, 45000000}

AmortRates == {0, 150, 300, 500, 1000}

AmortCall(principal, annual_rate, years) ==
    /\ amort_call = None
    /\ amort_call' = [op |-> "schedule",
                      principal |-> principal,
                      annual_rate |-> annual_rate,
                      years |-> years,
                      raw |-> RawBalances(principal,
                                  monthly_payment(principal, annual_rate, years),
                                  annual_rate, years),
                      result |->
                          amortization_schedule(principal, annual_rate, years)]
    /\ UNCHANGED <<core, parse_call, delta_call, tool, run, drafts, sessions>>

AmortRun ==
    \E principal \in AmortPrincipals, annual_rate \in AmortRates,
       years \in 0..MaxAmortYears :
        AmortCall(principal, annual_rate, years)
-----------------------------------------------------------------------------
(* backend/calculations/valuation.py, listing_delta_calculation.           *)
(* Adjustments are in basis points: -0.05 is -500.                         *)

\* dom_penalty, as the if / elif applies it
DomPenalty(days_on_market, median_dom) ==
    IF 2 * days_on_market > 3 * median_dom THEN 0 - 500
    ELSE IF days_on_market > median_dom * 2 THEN 0 - 1000
    ELSE 0

dpe_penalties ==
    "A" :> 500 @@ "B" :> 200 @@ "C" :> 0 @@ "D" :> (0 - 200)
    @@ "E" :> (0 - 500) @@ "F" :> (0 - 1000) @@ "G" :> (0 - 1500)

\* dpe_grade.upper(), on the grades a call passes
Upper(dpe_grade) ==
    IF dpe_grade = "d" THEN "D"
    ELSE IF dpe_grade = "g" THEN "G"
    ELSE dpe_grade

listing_delta_calculation(price_cut_pct, days_on_market, median_dom, dpe_grade, condition_penalty) ==
    price_cut_pct
    + DomPenalty(days_on_market, median_dom)
    + (IF Upper(dpe_grade) \in DOMAIN dpe_penalties
       THEN dpe_penalties[Upper(dpe_grade)] ELSE 0)
    + condition_penalty

DeltaInputs ==
    [price_cut_pct : {0 - 1000, 0},
     days_on_market : {0, 30, 45, 46, 60, 61, 91, 120},
     median_dom : {0, 30, 45},
     dpe_grade : {"A", "C", "d", "G", "H"},
     condition_penalty : {0 - 500, 0}]

DeltaCall(a) ==
    /\ delta_call = None
    /\ delta_call' = [op |-> "listing_delta", args |-> a,
                      result |->
                          listing_delta_calculation(a.price_cut_pct,
                              a.days_on_market, a.median_dom, a.dpe_grade,
                              a.condition_penalty)]
    /\ UNCHANGED <<core, parse_call, amort_call, tool, run, drafts, sessions>>

DeltaRun == \E a \in DeltaInputs : DeltaCall(a)
-----------------------------------------------------------------------------
(* A direct call of fetch_dvf_comps_progressive with coordinates.          *)
(* Coordinates are in 1/10000 degree.  A record's dist is what             *)
(* haversine_distance gives between the subject and the record, in metres; *)
(* it is negative when the record has no lat or lon.                       *)

\* the variables of the sections above
older == <<pc, request, ctx, response, cli_out, proj_call, rent_call, fit_call, dvf, parse_call, amort_call, delta_call, tool, run, drafts, sessions>>

\* no coordinates; Paris; a point of the Gironde on the Greenwich meridian
Coordinates == {<<>>, <<488566, 23522>>, <<450000, 0>>}

SaleAt(dist, valeur) == [Sale(20180601, 50, valeur, 2) EXCEPT !.dist = dist]

\* numbers of sales at 300 m, 400 m, 700 m, 1100 m and 5 km and of sales
\* without coordinates
GeoMixes ==
    {<<0, 0, 0, 0, 0, 0>>, <<12, 0, 0, 0, 0, 0>>, <<11, 1, 0, 0, 0, 0>>,
     <<11, 0, 1, 0, 0, 0>>, <<11, 0, 0, 1, 0, 0>>, <<11, 0, 0, 0, 1, 0>>,
     <<11, 0, 0, 0, 0, 1>>, <<2, 0, 0, 0, 3, 0>>, <<1, 0, 1, 0, 3, 0>>,
     <<1, 0, 0, 1, 0, 2>>, <<0, 1, 0, 0, 1, 0>>, <<0, 0, 0, 0, 2, 0>>,
     <<1, 0, 1, 1, 1, 0>>, <<0, 0, 2, 2, 0, 0>>, <<0, 0, 1, 2, 0, 0>>,
     <<5, 5, 5, 5, 0, 0>>, <<6, 0, 6, 0, 6, 0>>}

GeoList(mix) ==
    Repeat(SaleAt(5000, 47000000), mix[5]) \o Repeat(SaleAt(1100, 46000000), mix[4])
        \o Repeat(SaleAt(700, 45000000), mix[3]) \o Repeat(SaleAt(400, 44000000), mix[2])
        \o Repeat(SaleAt(300, 43000000), mix[1]) \o Repeat(SaleAt(0 - 1, 42000000), mix[6])

SearchReplies ==
    {Failure("timeout", 0)} \cup {JsonObject(JsonList(GeoList(mix)), Absent) : mix \in GeoMixes}

SearchMinComps == {2, 12}

SearchCall(postal_code, at, min_comps, reply) ==
    /\ search_call = None
    /\ search_call' = [op |-> "search",
                       postal_code |-> postal_code,
                       surface |-> 50,
                       at |-> at,
                       min_comps |-> min_comps,
                       all_comps |-> _fetch_raw_dvf_data(reply).items,
                       result |->
                           fetch_dvf_comps_progressive(postal_code, 50, at, 2,
                                                       min_comps, reply)]
    /\ UNCHANGED <<older, settings_load, paris_call, risk_call, city_call>>

SearchRun ==
    \E postal_code \in {PC75001, PC33000}, at \in Coordinates,
       min_comps \in SearchMinComps, reply \in SearchReplies :
        SearchCall(postal_code, at, min_comps, reply)
-----------------------------------------------------------------------------
(* backend/agents/settings.py: the import of the module.                   *)
(* os.environ maps a name to Unset or to Set(value); a value is a sequence *)
(* of characters.                                                          *)

Unset == [set |-> FALSE, value |-> <<>>]

Set(value) == [set |-> TRUE, value |-> value]

\* str.strip() of a value made of letters and spaces
RECURSIVE StripLeft(_)
StripLeft(v) == IF v # <<>> /\ Head(v) = " " THEN StripLeft(Tail(v)) ELSE v

RECURSIVE StripRight(_)
StripRight(v) ==
    IF v # <<>> /\ v[Len(v)] = " " THEN StripRight(SubSeq(v, 1, Len(v) - 1)) ELSE v

Strip(v) == StripRight(StripLeft(v))

\* the field validator of llm_api_key and brave_api_key: TRUE when it
\* raises ValueError("API key cannot be empty")
validate_api_keys(v) == v = <<>> \/ Strip(v) = <<>>

\* a field with a default
FieldOf(environ, name, default) ==
    IF environ[name].set THEN environ[name].value ELSE default

\* Settings(): the two key fields are required and validated, the others
\* have defaults
Settings(environ) ==
    IF \E name \in {"LLM_API_KEY", "BRAVE_API_KEY"} :
          \/ ~environ[name].set
          \/ validate_api_keys(environ[name].value)
    THEN [raised |-> TRUE, value |-> <<>>]
    ELSE [raised |-> FALSE,
          value |-> <<[llm_provider |->
                          FieldOf(environ, "LLM_PROVIDER", <<"o", "p", "e", "n", "a", "i">>),
                       llm_api_key |-> environ["LLM_API_KEY"].value,
                       llm_model |->
                          FieldOf(environ, "LLM_MODEL", <<"g", "p", "t", "-", "4">>),
                       brave_api_key |-> environ["BRAVE_API_KEY"].value]>>]

\* os.environ.setdefault(name, value)
setdefault(environ, name, value) ==
    IF environ[name].set THEN environ ELSE [environ EXCEPT ![name] = Set(value)]

\* "test_key"
TestKey == <<"t", "e", "s", "t", "_", "k", "e", "y">>

\* the module body from "# Global settings instance" on: where the import
\* ends, os.environ afterwards, the settings object and the number of
\* constructions
LoadSettings(environ) ==
    LET first == Settings(environ)
        injected == setdefault(setdefault(environ, "LLM_API_KEY", TestKey),
                               "BRAVE_API_KEY", TestKey)
        second == Settings(injected)
    IN  IF ~first.raised
        THEN [outcome |-> "loaded", environ |-> environ,
              settings |-> first.value, constructions |-> 1]
        ELSE IF ~second.raised
        THEN [outcome |-> "loaded", environ |-> injected,
              settings |-> second.value, constructions |-> 2]
        ELSE [outcome |-> "raised", environ |-> injected,
              settings |-> <<>>, constructions |-> 2]

\* unset, empty, blank, a real key
KeyValues == {Unset, Set(<<>>), Set(<<" ", " ">>), Set(<<"s", "k">>), Set(<<" ", "k", " ">>)}

Environments ==
    {("LLM_API_KEY" :> llm @@ "BRAVE_API_KEY" :> brave
        @@ "LLM_PROVIDER" :> provider @@ "LLM_MODEL" :> model) :
        llm \in KeyValues, brave \in KeyValues,
        provider \in {Unset, Set(<<"a", "n", "t", "h", "r", "o", "p", "i", "c">>)},
        model \in {Unset, Set(<<"g", "p", "t", "-", "4", "o">>), Set(<<"o", "1">>)}}

ImportSettings(environ) ==
    /\ settings_load = None
    /\ settings_load' = [op |-> "import", environ |-> environ,
                         result |-> LoadSettings(environ)]
    /\ UNCHANGED <<older, search_call, paris_call, risk_call, city_call>>

SettingsRun == \E environ \in Environments : ImportSettings(environ)
-----------------------------------------------------------------------------
(* backend/integrations/paris_rent.py: check_rent_compliance, the          *)
(* standalone helper of the Paris rent cap client.  Rents per m2 are in    *)
(* cents, percent_of_ceiling in tenths of a percent; the dash of the       *)
(* status strings is written "-".                                          *)

\* round(percent_of_ceiling, 1)
PercentOfCeiling(property_rent_per_m2, ceiling_rent_per_m2) ==
    (2 * property_rent_per_m2 * 1000 + ceiling_rent_per_m2) \div (2 * ceiling_rent_per_m2)

\* the status ladder
ParisStatus(property_rent_per_m2, ceiling_rent_per_m2, reference_rent_per_m2) ==
    IF ~(property_rent_per_m2 <= ceiling_rent_per_m2) THEN "Non-conformant"
    ELSE IF property_rent_per_m2 < reference_rent_per_m2 THEN "Conformant - Low"
    ELSE "Conformant - High"

\* a ceiling of 0 raises ZeroDivisionError in the division
paris_rent_check_rent_compliance(property_rent_per_m2, ceiling_rent_per_m2, reference_rent_per_m2) ==
    IF ceiling_rent_per_m2 = 0
    THEN [raised |-> TRUE, compliant |-> FALSE, status |-> "",
          percent_of_ceiling |-> 0]
    ELSE [raised |-> FALSE,
          compliant |-> property_rent_per_m2 <= ceiling_rent_per_m2,
          status |-> ParisStatus(property_rent_per_m2, ceiling_rent_per_m2,
                                 reference_rent_per_m2),
          percent_of_ceiling |->
              PercentOfCeiling(property_rent_per_m2, ceiling_rent_per_m2)]

\* the placeholder table gives references of 20 to 30 (36 furnished) and a
\* ceiling of 1.2 times the reference; the fallback is 25 and 30
ParisRents == {1500, 2499, 2500, 2501, 2600, 2999, 3000, 3001, 3120, 3121, 4000}

ParisReferences == {2000, 2500, 2600, 3000}

ParisCeilings == {0, 2400, 3000, 3120}

ParisCall(property_rent_per_m2, ceiling_rent_per_m2, reference_rent_per_m2) ==
    /\ paris_call = None
    /\ paris_call' = [op |-> "check_rent_compliance",
                      property_rent_per_m2 |-> property_rent_per_m2,
                      ceiling_rent_per_m2 |-> ceiling_rent_per_m2,
                      reference_rent_per_m2 |-> reference_rent_per_m2,
                      result |->
                          paris_rent_check_rent_compliance(property_rent_per_m2,
                              ceiling_rent_per_m2, reference_rent_per_m2)]
    /\ UNCHANGED <<older, search_call, settings_load, risk_call, city_call>>

ParisRun ==
    \E r \in ParisRents, c \in ParisCeilings, ref \in ParisReferences :
        ParisCall(r, c, ref)
-----------------------------------------------------------------------------
(* backend/parsers/risks.py: _calculate_overall_risk_level.                *)
(* A natural risk is its level, a technological risk its distance_meters;  *)
(* None is <<>> and a value v that is there is <<v>>.                      *)

NaturalPoints(level) ==
    IF level = "high" THEN 3
    ELSE IF level = "medium" THEN 2
    ELSE IF level = "low" THEN 1
    ELSE 0

SeismicPoints(seismic_zone) ==
    IF seismic_zone = <<>> \/ seismic_zone[1] = 0 THEN 0
    ELSE IF seismic_zone[1] >= 4 THEN 3
    ELSE IF seismic_zone[1] >= 3 THEN 2
    ELSE IF seismic_zone[1] >= 2 THEN 1
    ELSE 0

RadonPoints(radon_potential) ==
    IF radon_potential = <<>> \/ radon_potential[1] = 0 THEN 0
    ELSE IF radon_potential[1] >= 3 THEN 2
    ELSE IF radon_potential[1] >= 2 THEN 1
    ELSE 0

\* if risk.get("distance_meters"): ... else: risk_score += 2
TechnologicalPoints(distance_meters) ==
    IF distance_meters # <<>> /\ distance_meters[1] # 0
    THEN (IF distance_meters[1] < 100 THEN 3
          ELSE IF distance_meters[1] < 500 THEN 2
          ELSE 1)
    ELSE 2

\* the loop over risk_data["natural_risks"]
RECURSIVE NaturalScore(_)
NaturalScore(natural_risks) ==
    IF natural_risks = <<>> THEN 0
    ELSE NaturalPoints(Head(natural_risks)) + NaturalScore(Tail(natural_risks))

\* the loop over risk_data["technological_risks"]
RECURSIVE TechnologicalScore(_)
TechnologicalScore(technological_risks) ==
    IF technological_risks = <<>> THEN 0
    ELSE TechnologicalPoints(Head(technological_risks))
            + TechnologicalScore(Tail(technological_risks))

\* "Classify overall risk"
RiskLevel(risk_score) ==
    IF risk_score >= 8 THEN "high"
    ELSE IF risk_score >= 4 THEN "medium"
    ELSE "low"

RiskScore(risk_data) ==
    NaturalScore(risk_data.natural_risks)
        + SeismicPoints(risk_data.seismic_zone)
        + RadonPoints(risk_data.radon_potential)
        + TechnologicalScore(risk_data.technological_risks)
        + (IF risk_data.soil_pollution THEN 3 ELSE 0)

_calculate_overall_risk_level(risk_data) == RiskLevel(RiskScore(risk_data))

\* most technological risks of a report
MaxTechRisks == 2

\* distance_meters: None, or the integer the report gives
Distances == {<<>>, <<0>>, <<50>>, <<99>>, <<100>>, <<499>>, <<500>>}

TechRiskLists ==
    UNION {[1..n -> Distances] : n \in 0..MaxTechRisks}

RiskData ==
    [natural_risks : {<<>>, <<"high">>, <<"medium", "unknown">>, <<"low">>},
     seismic_zone : {<<>>, <<1>>, <<4>>},
     radon_potential : {<<>>, <<3>>},
     technological_risks : TechRiskLists,
     soil_pollution : BOOLEAN]

RiskCall(risk_data) ==
    /\ risk_call = None
    /\ risk_call' = [op |-> "overall_risk_level",
                     risk_data |-> risk_data,
                     risk_score |-> RiskScore(risk_data),
                     result |-> _calculate_overall_risk_level(risk_data)]
    /\ UNCHANGED <<older, search_call, settings_load, paris_call, city_call>>

RiskRun == \E risk_data \in RiskData : RiskCall(risk_data)
-----------------------------------------------------------------------------
(* The city of a postal code, as POST /api/parse/pdf derives it            *)
(* (get_city_from_postal_code of backend/api/routes/parse.py) and as       *)
(* POST /api/evaluate reports it (get_city_from_postal_code of             *)
(* backend/data/postal_codes.py, with backend/data/french_departments.py). *)
(* The tables hold the entries of the codes of CityCodes; names are        *)
(* written without accents.  None is <<>>, a string s is <<s>>.            *)

\* the departments, third digits and last two digits of the codes looked up
CityDepartments ==
    {<<"7", "5">>, <<"9", "2">>, <<"9", "3">>, <<"6", "9">>, <<"3", "3">>,
     <<"2", "0">>, <<"9", "7">>, <<"9", "8">>, <<"7", "4">>}

CityCodes ==
    {dept \o <<third>> \o last :
        dept \in CityDepartments, third \in {"0", "1", "2", "6"},
        last \in {<<"0", "0">>, <<"0", "1">>, <<"4", "0">>}}

\* idf_cities of parse.py, departments 92 and 93; the first entry of a
\* department is the one next(iter(...)) gives
idf_cities ==
    <<"9", "2">> :> (
        <<"9", "2", "0">> :> "Nanterre"
        @@ <<"9", "2", "1">> :> "Neuilly-sur-Seine"
        @@ <<"9", "2", "2">> :> "Boulogne-Billancourt"
        @@ <<"9", "2", "3">> :> "Levallois-Perret"
        @@ <<"9", "2", "4">> :> "Clichy"
        @@ <<"9", "2", "5">> :> "Colombes"
        @@ <<"9", "2", "6">> :> "Courbevoie"
        @@ <<"9", "2", "7">> :> "Asnieres-sur-Seine"
        @@ <<"9", "2", "8">> :> "Issy-les-Moulineaux"
        @@ <<"9", "2", "9">> :> "Rueil-Malmaison")
    @@ <<"9", "3">> :> (
        <<"9", "3", "0">> :> "Bobigny"
        @@ <<"9", "3", "1">> :> "Saint-Denis"
        @@ <<"9", "3", "2">> :> "Montreuil"
        @@ <<"9", "3", "3">> :> "Aubervilliers"
        @@ <<"9", "3", "4">> :> "Pantin"
        @@ <<"9", "3", "5">> :> "Bondy"
        @@ <<"9", "3", "6">> :> "Noisy-le-Sec")

IdfFirstCity == <<"9", "2">> :> "Nanterre" @@ <<"9", "3">> :> "Bobigny"

\* major_cities of parse.py
major_cities == <<"6", "9">> :> "Lyon" @@ <<"3", "3">> :> "Bordeaux"

\* backend/api/routes/parse.py
parse_get_city_from_postal_code(postal_code) ==
    IF postal_code = <<>> \/ Len(postal_code) # 5 THEN <<"">>
    ELSE IF StartsWith(postal_code, <<"7", "5", "0">>) THEN <<"Paris">>
    ELSE LET dept == SubSeq(postal_code, 1, 2)
             prefix == SubSeq(postal_code, 1, 3)
         IN  IF dept \in DOMAIN idf_cities
             THEN (IF prefix \in DOMAIN idf_cities[dept]
                   THEN <<idf_cities[dept][prefix]>>
                   ELSE <<IdfFirstCity[dept]>>)
             ELSE IF dept \in DOMAIN major_cities THEN <<major_cities[dept]>>
             ELSE <<"">>

\* backend/data/postal_codes.py: the city of each entry
POSTAL_CODE_TO_CITY ==
    <<"7", "5", "0", "0", "1">> :> "Paris"
    @@ <<"9", "2", "0", "0", "0">> :> "Nanterre"
    @@ <<"9", "2", "1", "0", "0">> :> "Boulogne-Billancourt"
    @@ <<"9", "2", "1", "4", "0">> :> "Clamart"
    @@ <<"9", "2", "2", "0", "0">> :> "Neuilly-sur-Seine"
    @@ <<"9", "2", "2", "4", "0">> :> "Malakoff"
    @@ <<"9", "2", "6", "0", "0">> :> "Asnieres-sur-Seine"
    @@ <<"9", "3", "0", "0", "0">> :> "Bobigny"
    @@ <<"9", "3", "1", "0", "0">> :> "Montreuil"
    @@ <<"9", "3", "1", "4", "0">> :> "Bondy"
    @@ <<"9", "3", "2", "0", "0">> :> "Saint-Denis"
    @@ <<"9", "3", "2", "4", "0">> :> "Stains"
    @@ <<"9", "3", "6", "0", "0">> :> "Aulnay-sous-Bois"
    @@ <<"6", "9", "0", "0", "1">> :> "Lyon"
    @@ <<"3", "3", "0", "0", "0">> :> "Bordeaux"
    @@ <<"3", "3", "1", "0", "0">> :> "Bordeaux"
    @@ <<"3", "3", "2", "0", "0">> :> "Bordeaux"

\* backend/data/french_departments.py
SPECIFIC_POSTAL_CODES ==
    <<"7", "4", "0", "0", "0">> :> "Annecy"
    @@ <<"7", "4", "1", "0", "0">> :> "Annemasse"
    @@ <<"7", "4", "2", "0", "0">> :> "Thonon-les-Bains"
    @@ <<"7", "4", "6", "0", "0">> :> "Seynod"

\* the main city of each entry
FRENCH_DEPARTMENTS ==
    <<"7", "5">> :> "Paris"
    @@ <<"9", "2">> :> "Nanterre"
    @@ <<"9", "3">> :> "Bobigny"
    @@ <<"6", "9">> :> "Lyon"
    @@ <<"3", "3">> :> "Bordeaux"
    @@ <<"2", "0">> :> "Ajaccio"
    @@ <<"2", "A">> :> "Ajaccio"
    @@ <<"2", "B">> :> "Bastia"
    @@ <<"7", "4">> :> "Annecy"
    @@ <<"9", "7", "1">> :> "Basse-Terre"
    @@ <<"9", "7", "2">> :> "Fort-de-France"
    @@ <<"9", "7", "6">> :> "Mamoudzou"

get_city_from_department(postal_code) ==
    IF postal_code = <<>> \/ Len(postal_code) < 2 THEN <<>>
    ELSE IF /\ StartsWith(postal_code, <<"9", "7">>)
            /\ Len(postal_code) = 5
            /\ SubSeq(postal_code, 1, 3) \in DOMAIN FRENCH_DEPARTMENTS
    THEN <<FRENCH_DEPARTMENTS[SubSeq(postal_code, 1, 3)]>>
    ELSE IF StartsWith(postal_code, <<"2", "0">>)
    THEN LET second_digit ==
                 IF Len(postal_code) > 2 THEN postal_code[3] ELSE "0"
         IN  IF second_digit \in {"0", "1", "2", "3", "4"}
             THEN <<"Ajaccio">>
             ELSE <<"Bastia">>
    ELSE IF SubSeq(postal_code, 1, 2) \in DOMAIN FRENCH_DEPARTMENTS
    THEN <<FRENCH_DEPARTMENTS[SubSeq(postal_code, 1, 2)]>>
    ELSE <<>>

\* backend/data/postal_codes.py
get_city_from_postal_code(postal_code) ==
    IF postal_code = <<>> \/ Len(postal_code) # 5 THEN <<>>
    ELSE IF postal_code \in DOMAIN POSTAL_CODE_TO_CITY
    THEN <<POSTAL_CODE_TO_CITY[postal_code]>>
    ELSE IF postal_code \in DOMAIN SPECIFIC_POSTAL_CODES
    THEN <<SPECIFIC_POSTAL_CODES[postal_code]>>
    ELSE get_city_from_department(postal_code)

\* one code, looked up by parse_pdf (city = get_city_from_postal_code(
\* postal_code)) and by evaluate_property (detected_city, the city of the
\* response)
CityCall(postal_code) ==
    /\ city_call = None
    /\ city_call' = [op |-> "city",
                     postal_code |-> postal_code,
                     parse_city |-> parse_get_city_from_postal_code(postal_code),
                     evaluate_city |-> get_city_from_postal_code(postal_code)]
    /\ UNCHANGED <<older, search_call, settings_load, paris_call, risk_call>>

CityRun == \E postal_code \in CityCodes : CityCall(postal_code)

-----------------------------------------------------------------------------
Init ==
    /\ pc = "idle"
    /\ request = None
    /\ ctx = None
    /\ response = None
    /\ cli_out = None
    /\ proj_call = None
    /\ rent_call = None
    /\ fit_call = None
    /\ dvf = None
    /\ parse_call = None
    /\ amort_call = None
    /\ delta_call = None
    /\ tool = None
    /\ run = None
    /\ drafts = {}
    /\ sessions = [id \in RequestIds |-> None]
    /\ search_call = None
    /\ settings_load = None
    /\ paris_call = None
    /\ risk_call = None
    /\ city_call = None

Next ==
    \/ \E req \in Requests, irr \in IrrOutcomes : EvaluateStart(req, irr)
    \/ \E reply \in DvfReplies : DvfRespond(reply)
    \/ \E reference_date \in ReferenceDates : EvaluateResume(reference_date)

Spec == Init /\ [][Next]_vars

CliNext == CliRun

SpecCli == Init /\ [][CliNext]_vars

ProjNext == ProjRun

SpecProj == Init /\ [][ProjNext]_vars

RentNext == RentRun

SpecRent == Init /\ [][RentNext]_vars

FitNext == FitRun

SpecFit == Init /\ [][FitNext]_vars

ParseNext == ParseRun

SpecParse == Init /\ [][ParseNext]_vars

AgentNext ==
    \/ \E name \in ToolNames, deps \in EvaluatorDeps : InvokeTool(name, deps)
    \/ \E a \in DraftArguments : CallDraftTool(a)
    \/ \E outcome \in RunOutcomes : RunEnds(outcome)

SpecAgent == Init /\ [][AgentNext]_vars

ConcurrentNext ==
    \/ \E id \in RequestIds, req \in ConcurrentRequests :
          SessionStart(id, req, IrrNaN)
    \/ \E id \in RequestIds, reply \in ConcurrentReplies :
          SessionDvfRespond(id, reply)
    \/ \E id \in RequestIds, reference_date \in ReferenceDates :
          SessionResume(id, reference_date)

SpecConcurrent == Init /\ [][ConcurrentNext]_vars

AmortNext == AmortRun

SpecAmort == Init /\ [][AmortNext]_vars

DeltaNext == DeltaRun

SpecDelta == Init /\ [][DeltaNext]_vars

SearchNext == SearchRun

SpecSearch == Init /\ [][SearchNext]_vars

SettingsNext == SettingsRun

SpecSettings == Init /\ [][SettingsNext]_vars

ParisNext == ParisRun

SpecParis == Init /\ [][ParisNext]_vars

RiskNext == RiskRun

SpecRisk == Init /\ [][RiskNext]_vars

CityNext == CityRun

SpecCity == Init /\ [][CityNext]_vars

-----------------------------------------------------------------------------
(* Properties.                                                             *)

DvfCallFailed ==
    /\ dvf.state = "replied"
    /\ \/ dvf.reply.kind # "json"
       \/ dvf.reply.body.shape # "object"
       \/ \E i \in DOMAIN dvf.reply.body.resultats.items :
             \/ dvf.reply.body.resultats.items[i].shape # "object"
             \/ dvf.reply.body.resultats.items[i].valeur_is_text

\* C2: when the comparable-sales (DVF) call made during an evaluation fails
\* (timeout, transport error, non-200 status, or a reply body that cannot be
\* parsed into well-formed sale records), the failure is absorbed inside the
\* client and POST /api/evaluate still completes successfully with a price
\* verdict taken from the department fallback range; it never becomes a
\* server error.
C2_DvfFailureAbsorbed ==
    (pc \in {"done", "failed"} /\ DvfCallFailed) =>
        /\ pc = "done"
        /\ response.status_code = 200
        /\ response.price_source.basis = "typical market ranges"
        /\ response.price_verdict \in {"Under-priced", "Average", "Overpriced"}

\* the deal of the end-to-end example as the calculation library sees it:
\* loan 280000 at 3 % over 20 years, rent 1800, operating expenses 4000 per
\* year, vacancy 5 %
C6_ExampleNoi ==
    LET gmi == gross_monthly_income(180000, 0)
    IN  noi_calculation(gmi, vacancy_credit_loss(gmi, 500), 400000)

C6_ExampleDscr ==
    dscr_calculation(C6_ExampleNoi,
                     annual_debt_service(monthly_payment(28000000, 300, 20)))

C9_TopThreeFits ==
    pc = "done" =>
        /\ Len(ctx.fits) = 5
        /\ Cardinality({ctx.fits[i].strategy : i \in 1..5}) = 5
        /\ \A i \in 1..4 : ctx.fits[i].score >= ctx.fits[i + 1].score
        /\ response.strategy_fits = SubSeq(ctx.fits, 1, 3)
        /\ \A i \in 1..3, j \in 4..5 :
              ctx.fits[j].score <= response.strategy_fits[i].score

\* the scorers ran in the order owner-occupier, location nue, LMNP,
\* colocation, value-add; here the last one is returned and two others are
\* omitted with strictly lower scores
C9_Witness ==
    /\ pc = "done"
    /\ \E i \in 1..3 :
          response.strategy_fits[i].strategy = "Value-Add / deficit foncier"
    /\ response.strategy_fits[1].strategy # "Owner-occupier"
    /\ ctx.fits[4].score < response.strategy_fits[3].score
    /\ ctx.fits[5].score < ctx.fits[4].score

RECURSIVE SumCashFlow(_, _)
SumCashFlow(series, upto) ==
    IF upto = 0 THEN 0
    ELSE SumCashFlow(series, upto - 1) + series[upto].cash_flow

C5_CliVerdictAsHttp ==
    cli_out.op = "evaluate" => cli_out.verdict = HttpVerdict(cli_out.dscr)

\* C8: check_rent_compliance uses the legal band whenever the postal code has
\* one and the regional estimate (is_estimate = true) only otherwise; on a
\* legal band, is_compliant holds exactly when min <= rent/surface <= max,
\* and the verdict is "Conformant - Low" for a compliant rent at or below
\* the median and "Conformant - High" for a compliant rent above it.
C8_RentCompliance ==
    rent_call.op = "compliance" =>
        LET res == rent_call.result
            code == rent_call.postal_code
            rent == rent_call.monthly_rent
            area == rent_call.surface
            has_legal == code \in (DOMAIN PARIS_RENT_CONTROL
                                     \cup DOMAIN OTHER_CITIES_RENT_CONTROL)
            table == PARIS_RENT_CONTROL @@ OTHER_CITIES_RENT_CONTROL
            within == /\ res.min_rent * area <= rent
                      /\ rent <= res.max_rent * area
        IN  /\ res # <<>>
            /\ res.is_estimate = ~has_legal
            /\ has_legal =>
                  /\ <<res.min_rent, res.max_rent, res.median_rent>> = table[code]
                  /\ res.is_compliant = within
                  /\ (within /\ rent <= res.median_rent * area)
                        => res.verdict = "Conformant - Low"
                  /\ (within /\ rent > res.median_rent * area)
                        => res.verdict = "Conformant - High"
            /\ ~has_legal =>
                  <<res.min_rent, res.max_rent, res.median_rent>>
                      = get_regional_rent_estimate(code)

\* postal code 75001, rent 1600 on 50 m2: compliant, high, about 68.6 %
C8_Witness ==
    /\ rent_call.op = "compliance"
    /\ rent_call.postal_code = PC75001
    /\ rent_call.monthly_rent = 160000
    /\ rent_call.surface = 50
    /\ rent_call.result.is_compliant
    /\ ~rent_call.result.is_estimate
    /\ rent_call.result.verdict = "Conformant - High"
    /\ rent_call.result.compliance_percentage = 686

\* C10: every result produced by the five strategy-profile scorers has
\* 0 <= score <= 100 for all inputs (any DSCR, IRR, total monthly cost,
\* market rent, price discount, bedroom count and DPE grade), with the
\* compliance and bedroom penalties applied.
C10_ScoresWithinRange ==
    fit_call.op = "fits" =>
        /\ Len(fit_call.result) = 5
        /\ \A i \in 1..Len(fit_call.result) :
              /\ fit_call.result[i].score >= 0
              /\ fit_call.result[i].score <= 100000

\* both penalties applied, inputs far outside every normalisation range
C10_Witness ==
    /\ fit_call.op = "fits"
    /\ ~fit_call.args.legal_rent_compliant
    /\ fit_call.args.bedrooms < 2
    /\ fit_call.args.dscr = FracInf
    /\ fit_call.args.irr = Irr(3000)
    /\ fit_call.args.price_discount_pct = 0 - 4000
    /\ \E i \in 1..5 : fit_call.result[i].score = 100000
    /\ \E i \in 1..5 : /\ fit_call.result[i].strategy = "Colocation"
                        /\ fit_call.result[i].score < 30000

\* C11: POST /api/parse/text answers success = true, with the data that the
\* listing parser found, for every text on which the parser does not raise
\* (the parser raises on none of the texts).
C11_ParseTextSucceeds ==
    parse_call # None =>
        /\ parse_call.result.success
        /\ parse_call.result.price = parse_call.parsed.price
        /\ parse_call.result.surface = parse_call.parsed.surface
        /\ parse_call.result.rooms = parse_call.parsed.rooms
        /\ parse_call.result.bedrooms = parse_call.parsed.bedrooms

\* C12: invoke_research_agent and invoke_negotiation_agent let no exception
\* out: when the sub-agent run, or anything before it inside the tool,
\* raises, the tool returns an envelope with success = false, the text of
\* the error and a message, and the evaluator's run goes on.
C12_ToolsAbsorbFailures ==
    tool # None =>
        /\ tool.pc # "raised"
        /\ ~tool.result.raised
        /\ (tool.pc = "returned" /\ tool.outcome.raised) =>
              /\ tool.result.success = FALSE
              /\ tool.result.error = tool.outcome.error
              /\ tool.result.message \in {"Research failed",
                                          "Draft creation failed"}
        /\ (tool.pc = "returned" /\ ~tool.outcome.raised) =>
              tool.result.success

C12_Witness ==
    /\ tool # None
    /\ tool.pc = "returned"
    /\ tool.name = "invoke_research_agent"
    /\ tool.outcome.error = "UsageLimitExceeded"
    /\ tool.result.success = FALSE
    /\ tool.result.message = "Research failed"

\* C13: when the email client fails while creating a draft it re-raises the
\* failure, and create_negotiation_email_draft turns that failure, like any
\* other one inside it, into a returned payload with success = false that
\* keeps the recipient and the property address; no exception leaves it.
C13_DraftFailureIsPayload ==
    run # None =>
        \A i \in 1..Len(run.calls) :
            LET a == run.calls[i].args
                payload == run.calls[i].payload
                client == create_draft(a.recipient_email, a.subject)
            IN  /\ ~payload.raised
                /\ client.raised =>
                      client.error = "Failed to create draft: TypeError"
                /\ (client.raised \/ a.asking_price = 0) =>
                      /\ payload.success = FALSE
                      /\ payload.recipient = a.recipient_email
                      /\ payload.property_address = a.property_address
                /\ (client.raised /\ a.asking_price # 0) =>
                      payload.error = client.error
                /\ (~client.raised /\ a.asking_price # 0) =>
                      /\ payload.success
                      /\ payload.draft_id = client.draft_id

C13_Witness ==
    /\ run # None
    /\ \E i \in 1..Len(run.calls) :
          /\ run.calls[i].args.recipient_email = <<>>
          /\ run.calls[i].args.asking_price = 500000
          /\ run.calls[i].payload.success = FALSE
          /\ run.calls[i].payload.error = "Failed to create draft: TypeError"
          /\ run.calls[i].payload.property_address = <<"10 rue de Rivoli">>

\* C14: concurrent POST /api/evaluate requests share no mutable state: in
\* every interleaving of the requests at their awaits, the response of each
\* request is the response the same request gets when it runs alone with
\* the same comparable-sales reply.
C14_ResponseAsAlone ==
    \A id \in RequestIds :
        (sessions[id] # None /\ sessions[id].pc \in {"done", "failed"}) =>
            LET s == sessions[id]
                alone == EvaluateReturn(s.request,
                                        EvaluateLocals(s.request, s.irr),
                                        s.dvf.reply, s.reference_date)
            IN  /\ s.pc = alone.pc
                /\ s.response = alone.response

C14_Witness ==
    /\ sessions[1] # None
    /\ sessions[2] # None
    /\ sessions[1].pc = "done"
    /\ sessions[2].pc = "await_dvf"
    /\ sessions[2].dvf.state = "replied"
    /\ sessions[1].request = BaseRequest
    /\ sessions[2].request = NegativeRequest
    /\ sessions[1].response.verdict # sessions[2].ctx.verdict

\* C15: amortization_schedule(principal, annual_rate, years) with
\* principal > 0 and years > 0 returns exactly years * 12 entries, numbered
\* 1 .. years * 12 in order, and the remaining_balance of every entry is
\* >= 0; the balance that the loop leaves below 0 is reported as 0.
C15_ScheduleShape ==
    (amort_call # None /\ amort_call.principal > 0 /\ amort_call.years > 0) =>
        /\ Len(amort_call.result) = amort_call.years * 12
        /\ \A m \in 1..Len(amort_call.result) :
              /\ amort_call.result[m].payment_number = m
              /\ amort_call.result[m].remaining_balance >= 0
              /\ amort_call.result[m].remaining_balance
                    = Max(0, amort_call.raw[m])

C15_Witness ==
    /\ amort_call # None
    /\ amort_call.principal > 0
    /\ amort_call.years = 2
    /\ Len(amort_call.result) = 24
    /\ amort_call.raw[24] < 0
    /\ amort_call.result[24].remaining_balance = 0
    /\ amort_call.result[23].remaining_balance > 0

\* C16: in a projection, from the first year whose last month lies beyond
\* the amortization schedule (year * 12 > number of entries; every year when
\* there is no loan) mortgage_payment is 0 and remaining_loan_balance is 0,
\* so that cash_flow = noi, in that year and in every later one; in every
\* earlier year from year 1 on, mortgage_payment is 12 monthly payments.
C16_DebtServiceEndsWithSchedule ==
    proj_call # None =>
        LET a == ProjArgs(proj_call.inp)
            entries == Len(a.loan_amortization_schedule)
        IN  \A year \in 1..proj_call.inp.years :
                LET p == proj_call.result[year + 1]
                IN  /\ p.year = year
                    /\ year * 12 > entries =>
                          /\ p.mortgage_payment = 0
                          /\ p.remaining_loan_balance = 0
                          /\ p.cash_flow = p.noi
                          /\ \A later \in year..proj_call.inp.years :
                                /\ proj_call.result[later + 1].mortgage_payment = 0
                                /\ proj_call.result[later + 1].remaining_loan_balance = 0
                    /\ year * 12 <= entries =>
                          /\ p.mortgage_payment = 12 * a.monthly_mortgage_payment
                          /\ p.cash_flow = p.noi - 12 * a.monthly_mortgage_payment

C16_Witness ==
    /\ proj_call # None
    /\ proj_call.inp.loan.years = 2
    /\ proj_call.inp.years = 3
    /\ proj_call.result[3].mortgage_payment > 0
    /\ proj_call.result[4].mortgage_payment = 0
    /\ proj_call.result[4].remaining_loan_balance = 0
    /\ proj_call.result[4].cash_flow = proj_call.result[4].noi

\* C17: the year-0 entry of a projection has remaining_loan_balance equal to
\* the initial loan balance, the principal outstanding before the first
\* payment, and equity equal to the initial property value minus that
\* balance; with no loan the balance is 0.
C17_Year0BalanceIsPrincipal ==
    proj_call # None =>
        LET year_0 == proj_call.result[1]
            principal == proj_call.inp.loan.principal
        IN  /\ year_0.year = 0
            /\ year_0.remaining_loan_balance = principal
            /\ year_0.equity = proj_call.inp.initial_property_value - principal

\* C18: listing_delta_calculation applies exactly one day-on-market
\* penalty: -0.10 when days_on_market > 2 x median_dom, -0.05 when
\* days_on_market > 1.5 x median_dom but not > 2 x median_dom, and none
\* otherwise; the two penalties are never added together.
C18_OneDomPenalty ==
    delta_call # None =>
        LET a == delta_call.args
            others == listing_delta_calculation(a.price_cut_pct, 0, 0,
                                                a.dpe_grade,
                                                a.condition_penalty)
            applied == delta_call.result - others
        IN  applied =
                IF a.days_on_market > 2 * a.median_dom THEN 0 - 1000
                ELSE IF 2 * a.days_on_market > 3 * a.median_dom THEN 0 - 500
                ELSE 0

\* C19: invoke_negotiation_agent returns success = true only if the
\* negotiation sub-agent created a draft during that run, and the draft_id
\* it returns is the id of that draft.
C19_SuccessMeansDraft ==
    (/\ tool # None
     /\ tool.pc = "returned"
     /\ tool.name = "invoke_negotiation_agent"
     /\ tool.result.success) =>
        \E i \in 1..Len(run.calls) :
            /\ run.calls[i].payload.success
            /\ run.calls[i].payload.draft_id = tool.result.draft_id
            /\ tool.result.draft_id \in drafts

\* C20: check_rent_compliance returns a compliance_percentage within
\* 0 .. 100 for every rent and surface, and exactly 50 when the band's min
\* equals its max.
C20_PercentageWithinRange ==
    (rent_call # None /\ rent_call.result # <<>>) =>
        /\ rent_call.result.compliance_percentage >= 0
        /\ rent_call.result.compliance_percentage <= 1000
        /\ rent_call.result.min_rent = rent_call.result.max_rent =>
              rent_call.result.compliance_percentage = 500

\* C21: every request POST /api/evaluate accepts with loan_amount = 0 is
\* answered with the verdict BUY: the net operating income is strictly
\* positive and, with no debt service, DSCR is +infinity whatever the price.
C21_CashPurchaseIsBuy ==
    (pc = "done" /\ request.loan_amount = 0) =>
        /\ response.metrics.noi > 0
        /\ response.metrics.dscr = FracInf
        /\ response.verdict = "BUY"

\* a purchase without a loan, at a rate field of 4 %, priced at 800000 for a
\* rent of one cent, answered BUY
C21_Witness ==
    /\ pc = "done"
    /\ request.loan_amount = 0
    /\ request.annual_rate > 0
    /\ request.price = 80000000
    /\ request.monthly_rent = 1
    /\ response.verdict = "BUY"

\* what the search is to return for the radius r: the comparables the
\* filter keeps within r of the subject
WithinRadius(r) ==
    _filter_comps(search_call.all_comps, search_call.surface, TRUE, r, MinDate24m, MinDate36m).comps

Enough(r) == Len(WithinRadius(r)) >= search_call.min_comps

\* C22: with coordinates supplied, fetch_dvf_comps_progressive evaluates the
\* radii in the order 0.4 km, 0.8 km, 1.2 km and returns the result of the
\* first radius whose filtered comparables number at least min_comps,
\* labelled with that radius; only when coordinates are absent or all three
\* radii fall short does it return the commune-wide result labelled
\* "Commune <postal code>".
C22_RadiiInOrder ==
    (search_call # None /\ search_call.all_comps # <<>>) =>
        LET result == search_call.result
            supplied == search_call.at # <<>>
            commune == result.geo_scope = <<"Commune", search_call.postal_code>>
        IN  /\ (supplied /\ Enough(400)) =>
                   /\ result.comps = WithinRadius(400)
                   /\ result.geo_scope = <<"0.4km radius">>
            /\ (supplied /\ ~Enough(400) /\ Enough(800)) =>
                   /\ result.comps = WithinRadius(800)
                   /\ result.geo_scope = <<"0.8km radius">>
            /\ (supplied /\ ~Enough(400) /\ ~Enough(800) /\ Enough(1200)) =>
                   /\ result.comps = WithinRadius(1200)
                   /\ result.geo_scope = <<"1.2km radius">>
            /\ commune =>
                   \/ ~supplied
                   \/ (~Enough(400) /\ ~Enough(800) /\ ~Enough(1200))

\* C23: POST /api/evaluate never supplies coordinates to the
\* comparable-sales search, so the radius stages are never run and the
\* geographic scope of every evaluation is either "Commune <postal code>"
\* or "No data".
C23_ScopeIsCommuneOrNoData ==
    /\ pc = "done" =>
          ctx.geo_scope \in {<<"Commune", request.postal_code>>, <<"No data">>}
    /\ pc = "failed" => ctx.geo_scope = <<>>

\* twelve sales with coordinates, all within 0.4 km of the property,
\* answered with the commune as scope
C23_Witness ==
    /\ pc = "done"
    /\ dvf.reply = JsonObject(JsonList(Repeat(SaleNear, 12)), Absent)
    /\ Len(ctx.dvf_comps) = 12
    /\ \A i \in DOMAIN ctx.dvf_comps : ctx.dvf_comps[i].dist = 300
    /\ ctx.geo_scope = <<"Commune", request.postal_code>>

\* C24: the verdict and the strategy-fit scores of an evaluate response do
\* not depend on the rent-compliance result: two accepted requests that
\* differ only in surface (and therefore in rent per m2 and compliance
\* status) get the same verdict and the same strategy scores; the cash
\* flows the IRR is computed from are the same too.
C24_SurfaceLeavesVerdictAndScores ==
    \A i, j \in RequestIds :
        (/\ sessions[i] # None
         /\ sessions[j] # None
         /\ sessions[i].pc = "done"
         /\ sessions[j].pc = "done"
         /\ sessions[i].irr = sessions[j].irr
         /\ [sessions[i].request EXCEPT !.surface = sessions[j].request.surface]
                = sessions[j].request) =>
            /\ sessions[i].response.verdict = sessions[j].response.verdict
            /\ sessions[i].response.strategy_fits = sessions[j].response.strategy_fits
            /\ sessions[i].response.metrics.irr = sessions[j].response.metrics.irr
            /\ sessions[i].response.cash_flow_projections
                  = sessions[j].response.cash_flow_projections

\* the same request with 50 m2 and with 40 m2, one below the rent band and
\* one within it
C24_Witness ==
    /\ sessions[1] # None
    /\ sessions[2] # None
    /\ sessions[1].pc = "done"
    /\ sessions[2].pc = "done"
    /\ sessions[1].request = BaseRequest
    /\ sessions[2].request = [BaseRequest EXCEPT !.surface = 40]
    /\ ~sessions[1].response.rent_band.is_compliant
    /\ sessions[2].response.rent_band.is_compliant
    /\ sessions[1].response.legal_rent_status # sessions[2].response.legal_rent_status
    /\ sessions[1].response.verdict = sessions[2].response.verdict

\* C25: for every request that passes validation (five-digit postal code),
\* check_rent_compliance returns a band, so the evaluate response always
\* carries a non-null rent_band and legal_rent_status is never "No rent
\* control in this area".
C25_AlwaysARentBand ==
    pc = "done" =>
        /\ check_rent_compliance(request.postal_code, request.monthly_rent,
                                 request.surface) # <<>>
        /\ response.rent_band # <<>>
        /\ response.legal_rent_status # "No rent control in this area"

\* Monaco's code: no rent-controlled city, no department of the region
\* table, answered with the national average as an estimate
C25_Witness ==
    /\ pc = "done"
    /\ request.postal_code = PC98000
    /\ get_rent_control_band(request.postal_code) = <<>>
    /\ DeptCode(request.postal_code) \notin DOMAIN DEPARTMENT_TO_REGION
    /\ response.rent_band # <<>>
    /\ response.rent_band.is_estimate
    /\ response.rent_band.median_rent = NATIONAL_AVERAGE_RENT[3]

\* C26: in every evaluate response, purchase_costs.total_cash_required
\* equals down_payment + renovation_costs + purchase_costs.total_fees and
\* equals the negative of the year-0 cash_flow in cash_flow_projections.
C26_TotalCashRequired ==
    pc = "done" =>
        LET costs == response.purchase_costs
            year_0 == response.cash_flow_projections[1]
        IN  /\ costs.down_payment = request.down_payment
            /\ costs.renovation_costs = request.renovation_costs
            /\ costs.total_cash_required
                  = costs.down_payment + costs.renovation_costs + costs.total_fees
            /\ year_0.year = 0
            /\ costs.total_cash_required = 0 - year_0.cash_flow

\* a purchase with a loan and with renovation works
C26_Witness ==
    /\ pc = "done"
    /\ request.loan_amount > 0
    /\ request.renovation_costs > 0
    /\ response.purchase_costs.mortgage_fees > 0
    /\ response.purchase_costs.total_cash_required
          > request.down_payment + request.renovation_costs
    /\ response.cash_flow_projections[1].cash_flow
          = 0 - response.purchase_costs.total_cash_required

\* C27: loading the settings module always ends with a usable Settings
\* object: if the first construction fails, the failure is caught once,
\* placeholder test credentials are injected and the retried construction
\* succeeds, so importing the module never fails for lack of real secrets,
\* whether the key variables are unset or set to empty values.
C27_ImportAlwaysLoads ==
    settings_load # None =>
        LET result == settings_load.result
        IN  /\ result.outcome = "loaded"
            /\ result.settings # <<>>
            /\ ~validate_api_keys(result.settings[1].llm_api_key)
            /\ ~validate_api_keys(result.settings[1].brave_api_key)
            /\ result.constructions = 2 =>
                  \E name \in {"LLM_API_KEY", "BRAVE_API_KEY"} :
                      result.environ[name] = Set(TestKey)

\* C28: the standalone Paris compliance helper classifies a rent per m2 r
\* against reference R and ceiling C as non-conformant exactly when r > C,
\* "Conformant - Low" exactly when r <= R, and "Conformant - High" exactly
\* when R < r <= C (for a reference that does not exceed the ceiling).
C28_ParisClassification ==
    (/\ paris_call # None
     /\ ~paris_call.result.raised
     /\ paris_call.reference_rent_per_m2 <= paris_call.ceiling_rent_per_m2) =>
        LET r == paris_call.property_rent_per_m2
            R == paris_call.reference_rent_per_m2
            C == paris_call.ceiling_rent_per_m2
            status == paris_call.result.status
        IN  /\ status = "Non-conformant" <=> r > C
            /\ status = "Conformant - Low" <=> r <= R
            /\ status = "Conformant - High" <=> (R < r /\ r <= C)

\* the points of one technological risk: 3 when its known distance is under
\* 100 m, 2 when it is under 500 m or unknown, 1 when it is 500 m or more
StatedTechnologicalPoints(distance_meters) ==
    IF distance_meters = <<>> THEN 2
    ELSE IF distance_meters[1] < 100 THEN 3
    ELSE IF distance_meters[1] < 500 THEN 2
    ELSE 1

RECURSIVE StatedTechnologicalScore(_)
StatedTechnologicalScore(technological_risks) ==
    IF technological_risks = <<>> THEN 0
    ELSE StatedTechnologicalPoints(Head(technological_risks))
            + StatedTechnologicalScore(Tail(technological_risks))

\* C29: _calculate_overall_risk_level scores each technological risk 3
\* points when its known distance is under 100 m, 2 points when it is under
\* 500 m or unknown, and 1 point when it is 500 m or more, adds a flat 3
\* points for soil pollution, and returns high when the point total is
\* >= 8, medium when it is >= 4 and low otherwise.
C29_RiskPoints ==
    risk_call # None =>
        LET d == risk_call.risk_data
            total == NaturalScore(d.natural_risks)
                        + SeismicPoints(d.seismic_zone)
                        + RadonPoints(d.radon_potential)
                        + StatedTechnologicalScore(d.technological_risks)
                        + (IF d.soil_pollution THEN 3 ELSE 0)
        IN  /\ risk_call.risk_score = total
            /\ risk_call.result = "high" <=> total >= 8
            /\ risk_call.result = "medium" <=> (total >= 4 /\ total < 8)
            /\ risk_call.result = "low" <=> total < 4

\* C30: for every five-digit postal code, the city that POST /api/parse/pdf
\* derives from the code equals the city that POST /api/evaluate reports
\* for the same code.
C30_SameCity ==
    city_call # None => city_call.parse_city = city_call.evaluate_city

====
